---- MODULE Spec2Model ----
(***************************************************************************)
(* Node-group resolution of the cluster-api cloud provider: the informer   *)
(* caches of Nodes, Machines, MachineSets and MachineDeployments, the      *)
(* provider-ID indices, the owner-reference walk, the annotation parser     *)
(* and the queries built from them (findMachineOwner, nodeGroups,          *)
(* nodeGroupForNode).                                                      *)
(*                                                                         *)
(* Conventions.  A Go pointer is a sequence: <<>> is nil and <<v>> points   *)
(* at v.  A (value, error) result is the record [val, err]; err = NoErr is  *)
(* Go's nil error.  A Go string that the code parses (an annotation value)  *)
(* is a sequence of one-character strings.  A store is the set of objects   *)
(* it holds, at most one per key.                                          *)
(***************************************************************************)
EXTENDS Integers, Sequences, FiniteSets, TLC

\* ------------------------------------------------------------------ bounds
\* Unique ids range over 1..MaxUID, replica counts over 0..MaxReplicas.
MaxUID == 2
MaxReplicas == 1

\* ---------------------------------------------------------------- pointers
Nil == <<>>
Ptr(v) == <<v>>
Deref(p) == p[1]

NoErr == "nil"
R(v, e) == [val |-> v, err |-> e]

\* pointer.Int32PtrDerefOr
Int32PtrDerefOr(p, def) == IF p = Nil THEN def ELSE Deref(p)

\* fmt.Sprintf("%s/%s", namespace, name)
Key(namespace, name) == namespace \o "/" \o name

\* ------------------------------------------------------------- annotations
nodeGroupMaxSizeAnnotationKey == "machine.openshift.io/cluster-api-autoscaler-node-group-max-size"
nodeGroupMinSizeAnnotationKey == "machine.openshift.io/cluster-api-autoscaler-node-group-min-size"
machineAnnotationKey == "machine.openshift.io/machine"

errMissingMinAnnotation == "missing min annotation"
errMissingMaxAnnotation == "missing max annotation"
errInvalidMinAnnotation == "invalid min annotation"
errInvalidMaxAnnotation == "invalid max annotation"

Digits == <<"0", "1", "2", "3", "4", "5", "6", "7", "8", "9">>
IsDigit(c) == \E i \in 1..10 : Digits[i] = c
DigitVal(c) == (CHOOSE i \in 1..10 : Digits[i] = c) - 1

RECURSIVE DigitsValue(_, _)
\* value of a non-empty all-digit sequence, most significant digit first
DigitsValue(s, acc) ==
    IF s = <<>> THEN acc ELSE DigitsValue(Tail(s), acc * 10 + DigitVal(Head(s)))

\* strconv.Atoi: an optional sign, then one or more decimal digits; anything
\* else is a syntax error.  (No string of the model is long enough to
\* overflow int.)
Atoi(s) ==
    LET signed == s # <<>> /\ Head(s) \in {"+", "-"}
        body   == IF signed THEN Tail(s) ELSE s
    IN  IF body = <<>> \/ \E i \in 1..Len(body) : ~IsDigit(body[i])
        THEN R(0, "strconv.Atoi: invalid syntax")
        ELSE IF signed /\ Head(s) = "-"
             THEN R(0 - DigitsValue(body, 0), NoErr)
             ELSE R(DigitsValue(body, 0), NoErr)

\* errors.Wrapf(err, "%s", sentinel): a new error value, not the sentinel
Wrapf(err, sentinel) == sentinel \o ": " \o err

\* the tail of minSize and maxSize: the parsed value, or the parse error
\* wrapped as the invalid-annotation error
parsedSize(i, errInvalid) ==
    IF i.err # NoErr THEN R(0, Wrapf(i.err, errInvalid)) ELSE R(i.val, NoErr)

minSize(annotations) ==
    IF nodeGroupMinSizeAnnotationKey \notin DOMAIN annotations
    THEN R(0, errMissingMinAnnotation)
    ELSE parsedSize(Atoi(annotations[nodeGroupMinSizeAnnotationKey]), errInvalidMinAnnotation)

maxSize(annotations) ==
    IF nodeGroupMaxSizeAnnotationKey \notin DOMAIN annotations
    THEN R(0, errMissingMaxAnnotation)
    ELSE parsedSize(Atoi(annotations[nodeGroupMaxSizeAnnotationKey]), errInvalidMaxAnnotation)

Bounds(mn, mx, e) == [min |-> mn, max |-> mx, err |-> e]

\* variant: the maximum is not compared with the minimum
checkedBoundsUnordered(mn, mx) ==
    IF mn.err # NoErr /\ mn.err # errMissingMinAnnotation THEN Bounds(0, 0, mn.err)
    ELSE IF mn.val < 0 THEN Bounds(0, 0, errInvalidMinAnnotation)
    ELSE IF mx.err # NoErr /\ mx.err # errMissingMaxAnnotation THEN Bounds(0, 0, mx.err)
    ELSE IF mx.val < 0 THEN Bounds(0, 0, errInvalidMaxAnnotation)
    ELSE Bounds(mn.val, mx.val, NoErr)

\* the checks of parseScalingBounds on what minSize and maxSize returned, in
\* the order the code makes them
checkedBounds(mn, mx) ==
    IF mn.err # NoErr /\ mn.err # errMissingMinAnnotation THEN Bounds(0, 0, mn.err)
    ELSE IF mn.val < 0 THEN Bounds(0, 0, errInvalidMinAnnotation)
    ELSE IF mx.err # NoErr /\ mx.err # errMissingMaxAnnotation THEN Bounds(0, 0, mx.err)
    ELSE IF mx.val < 0 THEN Bounds(0, 0, errInvalidMaxAnnotation)
    ELSE IF mx.val < mn.val THEN Bounds(0, 0, errInvalidMaxAnnotation)
    ELSE Bounds(mn.val, mx.val, NoErr)

parseScalingBounds(annotations) == checkedBounds(minSize(annotations), maxSize(annotations))

\* --------------------------------------------------------- owner references
OwnerRef(kind, name, uid) == [Kind |-> kind, Name |-> name, UID |-> uid]

RECURSIVE FirstRef(_, _, _)
\* the range loop of machineOwnerRef / machineSetMachineDeploymentRef
FirstRef(refs, kind, needName) ==
    IF refs = <<>> THEN Nil
    ELSE IF Head(refs).Kind = kind /\ (~needName \/ Head(refs).Name # "")
         THEN Ptr(Head(refs))
         ELSE FirstRef(Tail(refs), kind, needName)

machineOwnerRef(machine) == FirstRef(machine.OwnerReferences, "MachineSet", TRUE)

\* variant: confirms the owner by name instead of unique id
machineIsOwnedByMachineSetByName(machine, machineSet) ==
    LET ref == machineOwnerRef(machine)
    IN  ref # Nil /\ Deref(ref).Name = machineSet.Name

machineIsOwnedByMachineSet(machine, machineSet) ==
    LET ref == machineOwnerRef(machine)
    IN  IF ref # Nil THEN Deref(ref).UID = machineSet.UID ELSE FALSE

machineSetMachineDeploymentRef(machineSet) ==
    FirstRef(machineSet.OwnerReferences, "MachineDeployment", FALSE)

\* variant: looks for the owner kind of a Machine, not of a MachineSet
machineSetHasMachineSetOwnerRef(machineSet) ==
    FirstRef(machineSet.OwnerReferences, "MachineSet", FALSE) # Nil

machineSetHasMachineDeploymentOwnerRef(machineSet) ==
    machineSetMachineDeploymentRef(machineSet) # Nil

machineSetIsOwnedByMachineDeployment(machineSet, machineDeployment) ==
    LET ref == machineSetMachineDeploymentRef(machineSet)
    IN  IF ref # Nil THEN Deref(ref).UID = machineDeployment.UID ELSE FALSE

\* -------------------------------------------------------------------- state
VARIABLES
    nodes,                     \* nodeInformer store: Nodes, keyed by name
    machines,                  \* machineInformer store: Machines, keyed by namespace/name
    machineSets,               \* machineSetInformer store
    machineDeployments,        \* machineDeploymentInformer store
    nodeIndex,                 \* nodeProviderIDIndex: pairs <<provider id, node key>>
    machineIndex,              \* machineProviderIDIndex: pairs <<provider id, machine key>>
    enableMachineDeployments,  \* machineController.enableMachineDeployments
    call                       \* the query in progress: its input and what it returns

\* the cluster manager, its clock and its callers
VARIABLES
    lastRefresh,               \* clusterManager.lastRefresh
    clusterSnapshot,           \* clusterManager.clusterSnapshot
    now,                       \* what time.Now() returns
    cluster,                   \* the watched resources as they are: a revision number
    refresher                  \* per caller: where it is in Refresh and the query after it

\* the initial synchronization
VARIABLES
    synced,                    \* per informer: what HasSynced returns
    stopCh,                    \* TRUE once stopCh is closed
    runner                     \* where run is, and what it returned

managerVars == <<lastRefresh, clusterSnapshot, now, cluster, refresher>>
runVars == <<synced, stopCh, runner>>

vars == <<nodes, machines, machineSets, machineDeployments, nodeIndex, machineIndex,
          enableMachineDeployments, call, managerVars, runVars>>

cacheVars == <<nodes, machines, machineSets, machineDeployments, nodeIndex, machineIndex>>

NodeKey(node) == node.Name
ObjKey(obj) == Key(obj.Namespace, obj.Name)

\* cache.MetaNamespaceKeyFunc, the key function of the informer stores:
\* namespace/name, the name alone for an object without a namespace (a Node)
MetaNamespaceKeyFunc(obj) ==
    IF "Namespace" \in DOMAIN obj THEN ObjKey(obj) ELSE NodeKey(obj)

\* Go map lookup: the zero value "" when the key is absent
Lookup(map, k) == IF k \in DOMAIN map THEN map[k] ELSE ""

indexMachineByProviderID(machine) ==
    IF machine.Spec.ProviderID # Nil /\ Deref(machine.Spec.ProviderID) # ""
    THEN {Deref(machine.Spec.ProviderID)}
    ELSE {}

\* variant: a Node is indexed under its provider id even when that is empty
indexNodeByProviderIDEvenEmpty(node) == {node.Spec.ProviderID}

indexNodeByProviderID(node) ==
    IF node.Spec.ProviderID # "" THEN {node.Spec.ProviderID} ELSE {}

\* ------------------------------------------------- the stores (cache.Indexer)
\* Every read of a store can fail: env.fault names the store that is
\* unreadable during the call, "none" when all are readable.
Faults == {"none", "nodes", "machines", "machineSets", "machineDeployments"}
errStore == "store error"

\* Store.GetByKey: (item, exists)
GetByKey(store, key) == {obj \in store : MetaNamespaceKeyFunc(obj) = key}

\* Indexer.ByIndex: the stored objects the index lists under indexedValue
ByIndex(store, index, indexedValue) ==
    {obj \in store : <<indexedValue, MetaNamespaceKeyFunc(obj)>> \in index}

\* the order a lister returns the objects of a store in: any
Enumerations(S) ==
    {s \in [1..Cardinality(S) -> S] : \A x \in S : \E i \in 1..Cardinality(S) : s[i] = x}

Env(fault, machineSetList, machineDeploymentList) ==
    [fault |-> fault, machineSets |-> machineSetList,
     machineDeployments |-> machineDeploymentList]

\* Store.Add / Store.Update: the item and its index entries change together
StorePut(store, obj) ==
    {o \in store : MetaNamespaceKeyFunc(o) # MetaNamespaceKeyFunc(obj)} \cup {obj}
StoreDelete(store, key) == {o \in store : MetaNamespaceKeyFunc(o) # key}
\* indexedValues is what the index function returns for the object put
IndexPut(index, key, indexedValues) ==
    {e \in index : e[2] # key} \cup {<<v, key>> : v \in indexedValues}
IndexDelete(index, key) == {e \in index : e[2] # key}

\* ------------------------------------------------------------ point queries
findMachine(id, env) ==
    IF env.fault = "machines" THEN R(Nil, errStore)
    ELSE LET item == GetByKey(machines, id)
         IN  IF item = {} THEN R(Nil, NoErr)
             ELSE R(Ptr(CHOOSE machine \in item : TRUE), NoErr)

findMachineDeployment(id, env) ==
    IF env.fault = "machineDeployments" THEN R(Nil, errStore)
    ELSE LET item == GetByKey(machineDeployments, id)
         IN  IF item = {} THEN R(Nil, NoErr)
             ELSE R(Ptr(CHOOSE machineDeployment \in item : TRUE), NoErr)

\* variant: a missing owner is reported as an error
findMachineOwnerMissingIsError(machine, env) ==
    LET ref == machineOwnerRef(machine)
    IN  IF ref = Nil THEN R(Nil, NoErr)
        ELSE IF env.fault = "machineSets" THEN R(Nil, errStore)
        ELSE LET item == GetByKey(machineSets, Key(machine.Namespace, Deref(ref).Name))
             IN  IF item = {} THEN R(Nil, "machine set not found")
                 ELSE LET machineSet == CHOOSE ms \in item : TRUE
                      IN  IF ~machineIsOwnedByMachineSet(machine, machineSet)
                          THEN R(Nil, NoErr)
                          ELSE R(Ptr(machineSet), NoErr)

findMachineOwner(machine, env) ==
    LET ref == machineOwnerRef(machine)
    IN  IF ref = Nil THEN R(Nil, NoErr)
        ELSE IF env.fault = "machineSets" THEN R(Nil, errStore)
        ELSE LET item == GetByKey(machineSets, Key(machine.Namespace, Deref(ref).Name))
             IN  IF item = {} THEN R(Nil, NoErr)
                 ELSE LET machineSet == CHOOSE ms \in item : TRUE
                      IN  IF ~machineIsOwnedByMachineSet(machine, machineSet)
                          THEN R(Nil, NoErr)
                          ELSE R(Ptr(machineSet), NoErr)

\* variant: one of several Nodes under the provider id is returned
findNodeByProviderIDAnyOfMany(providerID, env) ==
    IF env.fault = "nodes" THEN R(Nil, errStore)
    ELSE LET objs == ByIndex(nodes, nodeIndex, providerID)
         IN  IF objs = {} THEN R(Nil, NoErr)
             ELSE R(Ptr(CHOOSE node \in objs : TRUE), NoErr)

findNodeByProviderID(providerID, env) ==
    IF env.fault = "nodes" THEN R(Nil, errStore)
    ELSE LET objs == ByIndex(nodes, nodeIndex, providerID)
             n    == Cardinality(objs)
         IN  IF n = 0 THEN R(Nil, NoErr)
             ELSE IF n > 1 THEN R(Nil, "internal error; expected len==1")
             ELSE R(Ptr(CHOOSE node \in objs : TRUE), NoErr)

findMachineByProviderID(providerID, env) ==
    IF env.fault = "machines" THEN R(Nil, errStore)
    ELSE LET objs == ByIndex(machines, machineIndex, providerID)
             n    == Cardinality(objs)
         IN  IF n > 1 THEN R(Nil, "internal error; expected len==1")
             ELSE IF n = 1 THEN R(Ptr(CHOOSE machine \in objs : TRUE), NoErr)
             ELSE LET node == findNodeByProviderID(providerID, env)
                  IN  IF node.err # NoErr THEN R(Nil, node.err)
                      ELSE IF node.val = Nil THEN R(Nil, NoErr)
                      ELSE findMachine(Lookup(Deref(node.val).Annotations, machineAnnotationKey), env)

\* --------------------------------------------------------------- node groups
\* A nodegroup wraps the resource it was built from and carries the bounds
\* parsed from that resource's annotations; it is not built when they do
\* not parse.
newNodegroup(kind, resource, bounds) ==
    IF bounds.err # NoErr
    THEN R(Nil, "error validating min/max annotations: " \o bounds.err)
    ELSE R(Ptr([kind |-> kind, resource |-> resource,
                minSize |-> bounds.min, maxSize |-> bounds.max]), NoErr)
MinSize(ng) == ng.minSize
MaxSize(ng) == ng.maxSize

newNodegroupFromMachineSet(machineSet) ==
    newNodegroup("MachineSet", machineSet, parseScalingBounds(machineSet.Annotations))

newNodegroupFromMachineDeployment(machineDeployment) ==
    newNodegroup("MachineDeployment", machineDeployment,
                 parseScalingBounds(machineDeployment.Annotations))

\* The informer listers behind listMachines, listMachineSets and
\* listMachineDeployments: every object of the store, in any order, or the
\* store's error.  (In this revision the three bodies are placeholders that
\* return nil, nil; the listing is the one the queries are written against.)
listMachineSets(env) ==
    IF env.fault = "machineSets" THEN R(<<>>, errStore) ELSE R(env.machineSets, NoErr)

listMachineDeployments(env) ==
    IF env.fault = "machineDeployments" THEN R(<<>>, errStore)
    ELSE R(env.machineDeployments, NoErr)

\* variant: the scaling range alone decides, the replica count is not read
hasCapacityToScaleAnyReplicas(ng, replicas) == MaxSize(ng) - MinSize(ng) > 0

\* "add nodegroup iff it has the capacity to scale"
hasCapacityToScale(ng, replicas) ==
    MaxSize(ng) - MinSize(ng) > 0 /\ Int32PtrDerefOr(replicas, 0) > 0

\* The callback machineSetNodeGroups hands to filterAllMachineSets, as its
\* effect on the nodegroups collected so far.
machineSetNodeGroupsFunc(nodegroups, machineSet) ==
    IF machineSetHasMachineDeploymentOwnerRef(machineSet) THEN R(nodegroups, NoErr)
    ELSE LET ng == newNodegroupFromMachineSet(machineSet)
         IN  IF ng.err # NoErr THEN R(nodegroups, ng.err)
             ELSE IF hasCapacityToScale(Deref(ng.val), machineSet.Spec.Replicas)
                  THEN R(Append(nodegroups, Deref(ng.val)), NoErr)
                  ELSE R(nodegroups, NoErr)

RECURSIVE filterLoop(_, _)
\* the range loop of filterMachineSets: the callback is applied to each
\* MachineSet in turn and its first error ends the loop
filterLoop(list, nodegroups) ==
    IF list = <<>> THEN R(nodegroups, NoErr)
    ELSE LET r == machineSetNodeGroupsFunc(nodegroups, Head(list))
         IN  IF r.err # NoErr THEN R(r.val, r.err) ELSE filterLoop(Tail(list), r.val)

filterMachineSets(namespace, nodegroups, env) ==
    LET list == listMachineSets(env)
    IN  IF list.err # NoErr THEN R(nodegroups, NoErr)
        ELSE filterLoop(list.val, nodegroups)

NamespaceAll == ""
filterAllMachineSets(nodegroups, env) == filterMachineSets(NamespaceAll, nodegroups, env)

machineSetNodeGroups(env) ==
    LET r == filterAllMachineSets(<<>>, env)
    IN  IF r.err # NoErr THEN R(<<>>, r.err) ELSE R(r.val, NoErr)

RECURSIVE machineDeploymentLoop(_, _)
\* the range loop of machineDeploymentNodeGroups
machineDeploymentLoop(list, nodegroups) ==
    IF list = <<>> THEN R(nodegroups, NoErr)
    ELSE LET md == Head(list)
             ng == newNodegroupFromMachineDeployment(md)
         IN  IF ng.err # NoErr THEN R(<<>>, ng.err)
             ELSE IF hasCapacityToScale(Deref(ng.val), md.Spec.Replicas)
                  THEN machineDeploymentLoop(Tail(list), Append(nodegroups, Deref(ng.val)))
                  ELSE machineDeploymentLoop(Tail(list), nodegroups)

machineDeploymentNodeGroups(env) ==
    IF ~enableMachineDeployments THEN R(<<>>, NoErr)
    ELSE LET list == listMachineDeployments(env)
         IN  IF list.err # NoErr THEN R(<<>>, list.err)
             ELSE machineDeploymentLoop(list.val, <<>>)

nodeGroups(env) ==
    LET ms == machineSetNodeGroups(env)
        md == machineDeploymentNodeGroups(env)
    IN  IF ms.err # NoErr THEN R(<<>>, ms.err)
        ELSE IF md.err # NoErr THEN R(<<>>, md.err)
        ELSE R(ms.val \o md.val, NoErr)

\* variant: a scaling range of zero width is let through
scaleSizeBelowOneOffByOne(ng) == MaxSize(ng) - MinSize(ng) < 0

\* "nodes must belong to a nodegroup that has a scale size of at least 1"
scaleSizeBelowOne(ng) == MaxSize(ng) - MinSize(ng) < 1

\* variant: the deployment reference is followed whatever the flag says
deploymentRefToFollowAlways(machineSet) == machineSetMachineDeploymentRef(machineSet)

\* the reference the MachineDeployment branch of nodeGroupForNode is entered with
deploymentRefToFollow(machineSet) ==
    IF enableMachineDeployments THEN machineSetMachineDeploymentRef(machineSet) ELSE Nil

nodeGroupFromMachineSet(node, machineSet) ==
    LET ng == newNodegroupFromMachineSet(machineSet)
    IN  IF ng.err # NoErr
        THEN R(Nil, "failed to build nodegroup for node " \o node.Name \o ": " \o ng.err)
        ELSE IF scaleSizeBelowOne(Deref(ng.val)) THEN R(Nil, NoErr)
        ELSE R(ng.val, NoErr)

\* variant: an unresolved deployment falls back to the MachineSet's own group
nodeGroupFromMachineDeploymentRefOrMachineSet(node, machineSet, ref, env) ==
    LET key == Key(machineSet.Namespace, Deref(ref).Name)
        machineDeployment == findMachineDeployment(key, env)
    IN  IF machineDeployment.err # NoErr
        THEN R(Nil, "unknown MachineDeployment " \o key \o ": " \o machineDeployment.err)
        ELSE IF machineDeployment.val = Nil THEN nodeGroupFromMachineSet(node, machineSet)
        ELSE LET ng == newNodegroupFromMachineDeployment(Deref(machineDeployment.val))
             IN  IF ng.err # NoErr
                 THEN R(Nil, "failed to build nodegroup for node " \o node.Name \o ": " \o ng.err)
                 ELSE IF scaleSizeBelowOne(Deref(ng.val)) THEN R(Nil, NoErr)
                 ELSE R(ng.val, NoErr)

\* the MachineDeployment branch of nodeGroupForNode
nodeGroupFromMachineDeploymentRef(node, machineSet, ref, env) ==
    LET key == Key(machineSet.Namespace, Deref(ref).Name)
        machineDeployment == findMachineDeployment(key, env)
    IN  IF machineDeployment.err # NoErr
        THEN R(Nil, "unknown MachineDeployment " \o key \o ": " \o machineDeployment.err)
        ELSE IF machineDeployment.val = Nil
        THEN R(Nil, "unknown MachineDeployment " \o key)
        ELSE LET ng == newNodegroupFromMachineDeployment(Deref(machineDeployment.val))
             IN  IF ng.err # NoErr
                 THEN R(Nil, "failed to build nodegroup for node " \o node.Name \o ": " \o ng.err)
                 ELSE IF scaleSizeBelowOne(Deref(ng.val)) THEN R(Nil, NoErr)
                 ELSE R(ng.val, NoErr)

nodeGroupForNode(node, env) ==
    LET machine == findMachineByProviderID(node.Spec.ProviderID, env)
    IN  IF machine.err # NoErr THEN R(Nil, machine.err)
        ELSE IF machine.val = Nil THEN R(Nil, NoErr)
        ELSE LET machineSet == findMachineOwner(Deref(machine.val), env)
             IN  IF machineSet.err # NoErr THEN R(Nil, machineSet.err)
                 ELSE IF machineSet.val = Nil THEN R(Nil, NoErr)
                 ELSE LET ref == deploymentRefToFollow(Deref(machineSet.val))
                      IN  IF ref # Nil
                          THEN nodeGroupFromMachineDeploymentRef(node, Deref(machineSet.val), ref, env)
                          ELSE nodeGroupFromMachineSet(node, Deref(machineSet.val))

\* ---------------------------------------------------- the watched resources
Namespace == "ns1"
ProviderIDs == {"p1"}
UIDs == 1..MaxUID
ReplicaCounts == {Nil} \cup {Ptr(i) : i \in 0..MaxReplicas}

EmptyMap == <<>>
MinMax(mn, mx) ==
    (nodeGroupMinSizeAnnotationKey :> mn) @@ (nodeGroupMaxSizeAnnotationKey :> mx)

\* bounds metadata of a cached MachineSet or MachineDeployment: none at all,
\* a range of width one, equal bounds, a value that is no integer
CacheAnnotations ==
    {EmptyMap, MinMax(<<"1">>, <<"2">>), MinMax(<<"1">>, <<"1">>), MinMax(<<"x">>, <<"2">>)}

Node(name, providerID, annotations) ==
    [Name |-> name, Spec |-> [ProviderID |-> providerID], Annotations |-> annotations]

Machine(name, providerID, ownerReferences) ==
    [Namespace |-> Namespace, Name |-> name, OwnerReferences |-> ownerReferences,
     Labels |-> EmptyMap, Spec |-> [ProviderID |-> providerID],
     Status |-> [NodeRef |-> Nil]]

MachineSet(name, uid, annotations, replicas, ownerReferences) ==
    [Namespace |-> Namespace, Name |-> name, UID |-> uid, Annotations |-> annotations,
     Labels |-> EmptyMap, OwnerReferences |-> ownerReferences,
     Spec |-> [Replicas |-> replicas]]

MachineDeployment(name, uid, annotations, replicas) ==
    [Namespace |-> Namespace, Name |-> name, UID |-> uid, Annotations |-> annotations,
     Spec |-> [Replicas |-> replicas]]

MachineSetRef == OwnerRef("MachineSet", "ms1", 1)
MachineDeploymentRef == OwnerRef("MachineDeployment", "md1", 1)

\* n1 in every shape; n2 as a second Node under the same provider id
NodeValues ==
    {Node("n1", providerID, annotations) :
        providerID \in {""} \cup ProviderIDs,
        annotations \in {EmptyMap, machineAnnotationKey :> Key(Namespace, "m1")}}
    \cup {Node("n2", providerID, EmptyMap) : providerID \in ProviderIDs}

\* the Nodes nodeGroupForNode is asked about
NodeArguments == {Node("n1", providerID, EmptyMap) : providerID \in {""} \cup ProviderIDs}

\* m1 in every shape; m2 as a second Machine under the same provider id
MachineValues ==
    {Machine("m1", providerID, ownerReferences) :
        providerID \in {Nil, Ptr("")} \cup {Ptr(p) : p \in ProviderIDs},
        ownerReferences \in {<<>>, <<MachineSetRef>>}}
    \cup {Machine("m2", Ptr(p), <<MachineSetRef>>) : p \in ProviderIDs}

MachineSetValues ==
    {MachineSet("ms1", uid, annotations, Ptr(1), ownerReferences) :
        uid \in UIDs, annotations \in CacheAnnotations,
        ownerReferences \in {<<>>, <<MachineDeploymentRef>>}}

MachineDeploymentValues ==
    {MachineDeployment("md1", uid, annotations, Ptr(1)) :
        uid \in UIDs, annotations \in CacheAnnotations}

\* the catalog's resources: two MachineSets and a MachineDeployment, with
\* every replica count
CatalogMachineSetValues ==
    {MachineSet(id[1], id[2], annotations, replicas, ownerReferences) :
        id \in {<<"ms1", 1>>, <<"ms2", MaxUID>>}, annotations \in CacheAnnotations,
        replicas \in ReplicaCounts, ownerReferences \in {<<>>, <<MachineDeploymentRef>>}}

CatalogMachineDeploymentValues ==
    {MachineDeployment("md1", 1, annotations, replicas) :
        annotations \in CacheAnnotations, replicas \in ReplicaCounts}

\* ------------------------------------------------------ subscription events
Idle == [op |-> "idle"]

UpsertNode(node) ==
    /\ call = Idle
    /\ UNCHANGED <<managerVars, runVars>>
    /\ nodes' = StorePut(nodes, node)
    /\ nodeIndex' = IndexPut(nodeIndex, NodeKey(node), indexNodeByProviderID(node))
    /\ UNCHANGED <<machines, machineSets, machineDeployments, machineIndex,
                   enableMachineDeployments, call>>

RemoveNode(node) ==
    /\ call = Idle
    /\ UNCHANGED <<managerVars, runVars>>
    /\ node \in nodes
    /\ nodes' = StoreDelete(nodes, NodeKey(node))
    /\ nodeIndex' = IndexDelete(nodeIndex, NodeKey(node))
    /\ UNCHANGED <<machines, machineSets, machineDeployments, machineIndex,
                   enableMachineDeployments, call>>

UpsertMachine(machine) ==
    /\ call = Idle
    /\ UNCHANGED <<managerVars, runVars>>
    /\ machines' = StorePut(machines, machine)
    /\ machineIndex' = IndexPut(machineIndex, ObjKey(machine), indexMachineByProviderID(machine))
    /\ UNCHANGED <<nodes, machineSets, machineDeployments, nodeIndex,
                   enableMachineDeployments, call>>

RemoveMachine(machine) ==
    /\ call = Idle
    /\ UNCHANGED <<managerVars, runVars>>
    /\ machine \in machines
    /\ machines' = StoreDelete(machines, ObjKey(machine))
    /\ machineIndex' = IndexDelete(machineIndex, ObjKey(machine))
    /\ UNCHANGED <<nodes, machineSets, machineDeployments, nodeIndex,
                   enableMachineDeployments, call>>

UpsertMachineSet(machineSet) ==
    /\ call = Idle
    /\ UNCHANGED <<managerVars, runVars>>
    /\ machineSets' = StorePut(machineSets, machineSet)
    /\ UNCHANGED <<nodes, machines, machineDeployments, nodeIndex, machineIndex,
                   enableMachineDeployments, call>>

RemoveMachineSet(machineSet) ==
    /\ call = Idle
    /\ UNCHANGED <<managerVars, runVars>>
    /\ machineSet \in machineSets
    /\ machineSets' = StoreDelete(machineSets, ObjKey(machineSet))
    /\ UNCHANGED <<nodes, machines, machineDeployments, nodeIndex, machineIndex,
                   enableMachineDeployments, call>>

UpsertMachineDeployment(machineDeployment) ==
    /\ call = Idle
    /\ UNCHANGED <<managerVars, runVars>>
    /\ machineDeployments' = StorePut(machineDeployments, machineDeployment)
    /\ UNCHANGED <<nodes, machines, machineSets, nodeIndex, machineIndex,
                   enableMachineDeployments, call>>

RemoveMachineDeployment(machineDeployment) ==
    /\ call = Idle
    /\ UNCHANGED <<managerVars, runVars>>
    /\ machineDeployment \in machineDeployments
    /\ machineDeployments' = StoreDelete(machineDeployments, ObjKey(machineDeployment))
    /\ UNCHANGED <<nodes, machines, machineSets, nodeIndex, machineIndex,
                   enableMachineDeployments, call>>

\* ------------------------------------------------------------------ queries
\* A query runs to completion on the cache as it is; call holds its input and
\* result until the caller takes it (Return).
CallFindMachineOwner(machine, fault) ==
    /\ call = Idle
    /\ UNCHANGED <<managerVars, runVars>>
    /\ call' = [op |-> "findMachineOwner", arg |-> machine, fault |-> fault,
                ret |-> findMachineOwner(machine, Env(fault, <<>>, <<>>))]
    /\ UNCHANGED <<cacheVars, enableMachineDeployments>>

CallNodeGroupForNode(node, fault) ==
    /\ call = Idle
    /\ UNCHANGED <<managerVars, runVars>>
    /\ call' = [op |-> "nodeGroupForNode", arg |-> node, fault |-> fault,
                ret |-> nodeGroupForNode(node, Env(fault, <<>>, <<>>))]
    /\ UNCHANGED <<cacheVars, enableMachineDeployments>>

CallNodeGroups(fault) ==
    /\ call = Idle
    /\ UNCHANGED <<managerVars, runVars>>
    /\ \E machineSetList \in Enumerations(machineSets),
          machineDeploymentList \in Enumerations(machineDeployments) :
          call' = [op |-> "nodeGroups", arg |-> Nil, fault |-> fault,
                   ret |-> nodeGroups(Env(fault, machineSetList, machineDeploymentList))]
    /\ UNCHANGED <<cacheVars, enableMachineDeployments>>

Return ==
    /\ call # Idle
    /\ UNCHANGED <<managerVars, runVars>>
    /\ call' = Idle
    /\ UNCHANGED <<cacheVars, enableMachineDeployments>>

\* ------------------------------------------------- the cluster manager state
refreshInterval == 30

\* time.Time{}: lastRefresh before the first rebuild
ZeroTime == 0

\* a snapshot, by the revision of the watched resources it was built from;
\* newEmptySnapshot is built from none
Snapshot(builtFrom) == [builtFrom |-> builtFrom]
newEmptySnapshot == Snapshot(Nil)

Callers == {"c1", "c2"}

\* A caller's resolver call: where it is (pc), the snapshot Refresh built
\* (s), the error Refresh returned (err) and the snapshot the query read
\* (observed); and, for the record, when the call began (startedAt), what
\* lastRefresh, the installed snapshot and the watched resources were then
\* (seenLastRefresh, seenSnapshot, clusterAtStart), what lastRefresh was when
\* Refresh returned (lastRefreshOnReturn), whether the call ran with no other
\* call in progress (alone) and whether it is complete (done).
Call(pc, startedAt, seenLastRefresh, seenSnapshot, clusterAtStart, alone) ==
    [pc |-> pc, startedAt |-> startedAt, seenLastRefresh |-> seenLastRefresh,
     seenSnapshot |-> seenSnapshot, clusterAtStart |-> clusterAtStart,
     lastRefreshOnReturn |-> seenLastRefresh, alone |-> alone,
     s |-> Nil, err |-> NoErr, observed |-> Nil, done |-> FALSE]

\* a caller that has made no call yet
NoCall == Call("idle", ZeroTime, ZeroTime, Nil, 0, TRUE)

\* NewClusterManager: an empty snapshot, lastRefresh the zero time; the clock
\* stands more than a refresh interval after the zero time
InitManager ==
    /\ lastRefresh = ZeroTime
    /\ clusterSnapshot = Ptr(newEmptySnapshot)
    /\ now = ZeroTime + 2 * refreshInterval
    /\ cluster = 0
    /\ refresher = [c \in Callers |-> NoCall]

\* ------------------------------------------------ the initial synchronization
Informers == {"nodes", "machines", "machineSets", "machineDeployments"}

\* before run: nothing has synced, stopCh is open
InitRun ==
    /\ synced = [i \in Informers |-> FALSE]
    /\ stopCh = FALSE
    /\ runner = [pc |-> "start", ret |-> NoErr]

\* ------------------------------------------------------------ specification
\* newMachineController: empty informer stores, the flag as given.  (In this
\* revision the constructor leaves the Machine, MachineSet and
\* MachineDeployment informers and the machine index registration commented
\* out; the controller modelled is the one the queries are written against,
\* with the four informers and both indices in place.)
Init ==
    /\ nodes = {}
    /\ machines = {}
    /\ machineSets = {}
    /\ machineDeployments = {}
    /\ nodeIndex = {}
    /\ machineIndex = {}
    /\ enableMachineDeployments \in BOOLEAN
    /\ call = Idle
    /\ InitManager
    /\ InitRun

Next ==
    \/ \E node \in NodeValues : UpsertNode(node)
    \/ \E node \in NodeValues : RemoveNode(node)
    \/ \E machine \in MachineValues : UpsertMachine(machine)
    \/ \E machine \in MachineValues : RemoveMachine(machine)
    \/ \E machineSet \in MachineSetValues : UpsertMachineSet(machineSet)
    \/ \E machineSet \in MachineSetValues : RemoveMachineSet(machineSet)
    \/ \E machineDeployment \in MachineDeploymentValues :
          UpsertMachineDeployment(machineDeployment)
    \/ \E machineDeployment \in MachineDeploymentValues :
          RemoveMachineDeployment(machineDeployment)
    \/ \E machine \in MachineValues, fault \in {"none", "machineSets"} :
          CallFindMachineOwner(machine, fault)
    \/ \E node \in NodeArguments, fault \in Faults : CallNodeGroupForNode(node, fault)
    \/ Return

Spec == Init /\ [][Next]_vars

\* The group catalog on its own: MachineSet and MachineDeployment events and
\* nodeGroups.
NextCatalog ==
    \/ \E machineSet \in CatalogMachineSetValues : UpsertMachineSet(machineSet)
    \/ \E machineSet \in CatalogMachineSetValues : RemoveMachineSet(machineSet)
    \/ \E machineDeployment \in CatalogMachineDeploymentValues :
          UpsertMachineDeployment(machineDeployment)
    \/ \E machineDeployment \in CatalogMachineDeploymentValues :
          RemoveMachineDeployment(machineDeployment)
    \/ \E fault \in {"none", "machineSets", "machineDeployments"} : CallNodeGroups(fault)
    \/ Return

SpecCatalog == Init /\ [][NextCatalog]_vars

\* =================================================================== claims
\* What the formulas below read off the call in progress.
CallEnv == Env(call.fault, <<>>, <<>>)

\* the Machine nodeGroupForNode resolves the node to, and that Machine's owner
MachineOfCall == findMachineByProviderID(call.arg.Spec.ProviderID, CallEnv)
OwnerOfCall ==
    IF MachineOfCall.err = NoErr /\ MachineOfCall.val # Nil
    THEN findMachineOwner(Deref(MachineOfCall.val), CallEnv)
    ELSE R(Nil, "no machine")
OwnerResolved == OwnerOfCall.err = NoErr /\ OwnerOfCall.val # Nil

\* the MachineDeployment owner reference of the node's MachineSet, and the
\* cached MachineDeployments under the referenced namespace/name
DeploymentRefOfCall == machineSetMachineDeploymentRef(Deref(OwnerOfCall.val))
DeploymentsOfCall ==
    {md \in machineDeployments :
        ObjKey(md) = Key(Deref(OwnerOfCall.val).Namespace, Deref(DeploymentRefOfCall).Name)}

\* the cached MachineSets under the namespace/name of machine's owner reference
ReferencedMachineSets(machine) ==
    {ms \in machineSets :
        /\ machineOwnerRef(machine) # Nil
        /\ ms.Namespace = machine.Namespace
        /\ ms.Name = Deref(machineOwnerRef(machine)).Name}

\* C1: findMachineOwner(m) returns none or a cached MachineSet whose UID is
\* the UID of m's MachineSet owner reference; when the store is readable and
\* holds no MachineSet under the referenced namespace/name, or holds one with
\* another UID, the result is none and no error.
C1_OwnerHasReferencedUID ==
    call.op = "findMachineOwner" =>
        /\ call.ret.val # Nil =>
              /\ call.ret.err = NoErr
              /\ Deref(call.ret.val) \in machineSets
              /\ machineOwnerRef(call.arg) # Nil
              /\ Deref(call.ret.val).UID = Deref(machineOwnerRef(call.arg)).UID
        /\ ( /\ call.fault = "none"
             /\ \A ms \in ReferencedMachineSets(call.arg) :
                   ms.UID # Deref(machineOwnerRef(call.arg)).UID )
           => call.ret = R(Nil, NoErr)

\* a MachineSet of the referenced name but another UID is cached, and the
\* owner query answered none
C1_Witness ==
    /\ call.op = "findMachineOwner"
    /\ call.fault = "none"
    /\ \E ms \in ReferencedMachineSets(call.arg) :
          ms.UID # Deref(machineOwnerRef(call.arg)).UID
    /\ call.ret = R(Nil, NoErr)

\* C2: with deployment grouping enabled, a group nodeGroupForNode builds from
\* a MachineDeployment has the UID of the MachineSet's MachineDeployment
\* owner reference, and a cached deployment that matches the reference by
\* namespace/name only makes the call fail.
C2_DeploymentGroupHasReferencedUID ==
    ( /\ call.op = "nodeGroupForNode"
      /\ call.fault = "none"
      /\ enableMachineDeployments
      /\ OwnerResolved
      /\ DeploymentRefOfCall # Nil )
    => /\ call.ret.val # Nil =>
             Deref(call.ret.val).resource.UID = Deref(DeploymentRefOfCall).UID
       /\ (\E md \in DeploymentsOfCall : md.UID # Deref(DeploymentRefOfCall).UID)
             => call.ret.err # NoErr

\* C3: with deployment grouping enabled, when the node's MachineSet has a
\* MachineDeployment owner reference and no MachineDeployment of that
\* namespace/name is cached, nodeGroupForNode returns an error and no group.
C3_DanglingDeploymentIsError ==
    ( /\ call.op = "nodeGroupForNode"
      /\ enableMachineDeployments
      /\ OwnerResolved
      /\ DeploymentRefOfCall # Nil
      /\ DeploymentsOfCall = {} )
    => call.ret.err # NoErr /\ call.ret.val = Nil

C3_Witness ==
    /\ call.op = "nodeGroupForNode"
    /\ call.fault = "none"
    /\ enableMachineDeployments
    /\ OwnerResolved
    /\ DeploymentRefOfCall # Nil
    /\ DeploymentsOfCall = {}
    /\ call.ret.err # NoErr

\* the resource nodeGroupForNode is to build the node's group from: the
\* referenced MachineDeployment when grouping is enabled and the node's
\* MachineSet carries a deployment reference, the MachineSet itself otherwise
FollowsDeployment == enableMachineDeployments /\ DeploymentRefOfCall # Nil
GroupResources ==
    IF FollowsDeployment THEN DeploymentsOfCall ELSE {Deref(OwnerOfCall.val)}
ParsedRange(resource) ==
    parseScalingBounds(resource.Annotations).max - parseScalingBounds(resource.Annotations).min

\* C8: every group nodeGroupForNode returns has max - min >= 1, and when the
\* group it resolves, from a MachineSet or a MachineDeployment, has valid
\* bounds with max - min < 1 it returns none and no error.
C8_GroupForNodeHasScalingRange ==
    call.op = "nodeGroupForNode" =>
        /\ call.ret.val # Nil =>
              /\ MaxSize(Deref(call.ret.val)) - MinSize(Deref(call.ret.val)) >= 1
              /\ ParsedRange(Deref(call.ret.val).resource) >= 1
        /\ ( /\ call.fault = "none"
             /\ OwnerResolved
             /\ \E res \in GroupResources :
                   /\ parseScalingBounds(res.Annotations).err = NoErr
                   /\ ParsedRange(res) < 1 )
           => call.ret = R(Nil, NoErr)

\* the node resolves to a MachineDeployment whose bounds are equal and not
\* zero, and the query answered none
C8_Witness ==
    /\ call.op = "nodeGroupForNode"
    /\ call.fault = "none"
    /\ OwnerResolved
    /\ FollowsDeployment
    /\ \E res \in GroupResources :
          /\ parseScalingBounds(res.Annotations).err = NoErr
          /\ parseScalingBounds(res.Annotations).min > 0
          /\ ParsedRange(res) = 0
    /\ call.ret = R(Nil, NoErr)

\* C9: the group nodeGroupForNode returns wraps the referenced
\* MachineDeployment when deployment grouping is enabled and the node's
\* MachineSet has a MachineDeployment owner reference, and wraps the
\* MachineSet when grouping is disabled or there is no such reference.
C9_GroupWraps ==
    (call.op = "nodeGroupForNode" /\ call.ret.val # Nil) =>
        /\ OwnerResolved
        /\ IF enableMachineDeployments /\
              \E i \in DOMAIN Deref(OwnerOfCall.val).OwnerReferences :
                  Deref(OwnerOfCall.val).OwnerReferences[i].Kind = "MachineDeployment"
           THEN /\ Deref(call.ret.val).kind = "MachineDeployment"
                /\ Deref(call.ret.val).resource \in DeploymentsOfCall
           ELSE /\ Deref(call.ret.val).kind = "MachineSet"
                /\ Deref(call.ret.val).resource = Deref(OwnerOfCall.val)

\* grouping is disabled, the node's MachineSet has a deployment reference,
\* and the group returned wraps the MachineSet
C9_Witness ==
    /\ call.op = "nodeGroupForNode"
    /\ call.ret.val # Nil
    /\ ~enableMachineDeployments
    /\ DeploymentRefOfCall # Nil
    /\ DeploymentsOfCall # {}
    /\ Deref(call.ret.val).kind = "MachineSet"

\* the Machines and Nodes the provider-ID indices list under the node's
\* provider ID, and the Machines the fallback reaches: those stored under the
\* key in the machine annotation of such a Node
IndexedMachines == ByIndex(machines, machineIndex, call.arg.Spec.ProviderID)
IndexedNodes == ByIndex(nodes, nodeIndex, call.arg.Spec.ProviderID)
AnnotatedMachines ==
    {m \in machines :
        \E n \in IndexedNodes : ObjKey(m) = Lookup(n.Annotations, machineAnnotationKey)}

\* no cached MachineSet is the owner machine refers to
HasNoOwner(machine) ==
    \A ms \in ReferencedMachineSets(machine) :
        ms.UID # Deref(machineOwnerRef(machine)).UID

\* C10 as stated: with the stores readable and the node index holding at most
\* one Node for the ID, nodeGroupForNode returns none and no error when the
\* machine provider-ID index has no Machine for the node's provider ID, and
\* when the Machine found has no owning MachineSet.
C10_NoIndexedMachineIsNone ==
    ( /\ call.op = "nodeGroupForNode"
      /\ call.fault = "none"
      /\ Cardinality(IndexedNodes) <= 1 )
    => /\ IndexedMachines = {} => call.ret = R(Nil, NoErr)
       /\ (\E m \in IndexedMachines : Cardinality(IndexedMachines) = 1 /\ HasNoOwner(m))
             => call.ret = R(Nil, NoErr)

\* C10, amended: with the stores readable and each provider-ID index holding
\* at most one object for the ID, nodeGroupForNode returns none and no error
\* when neither the machine provider-ID index nor the fallback (the Node the
\* node index lists for the ID, then the Machine stored under that Node's
\* machine annotation) finds a Machine, and when the Machine found by either
\* has no owning MachineSet.
C10_NoMachineOrNoOwnerIsNone ==
    ( /\ call.op = "nodeGroupForNode"
      /\ call.fault = "none"
      /\ Cardinality(IndexedNodes) <= 1
      /\ Cardinality(IndexedMachines) <= 1 )
    => /\ (IndexedMachines = {} /\ AnnotatedMachines = {}) => call.ret = R(Nil, NoErr)
       /\ (\E m \in IndexedMachines : HasNoOwner(m)) => call.ret = R(Nil, NoErr)
       /\ (IndexedMachines = {} /\ \E m \in AnnotatedMachines : HasNoOwner(m))
             => call.ret = R(Nil, NoErr)

\* the machine index has no Machine for the ID, the fallback finds one, its
\* owner reference names a MachineSet that is not cached, and the query
\* answered none
C10_Witness ==
    /\ call.op = "nodeGroupForNode"
    /\ call.fault = "none"
    /\ IndexedMachines = {}
    /\ \E m \in AnnotatedMachines :
          machineOwnerRef(m) # Nil /\ ReferencedMachineSets(m) = {}
    /\ call.ret = R(Nil, NoErr)

\* ------------------------------------------------------ the group catalog
\* what nodeGroups returned, as a set
ReturnedGroups == {call.ret.val[i] : i \in DOMAIN call.ret.val}

HasDeploymentRef(machineSet) ==
    \E i \in DOMAIN machineSet.OwnerReferences :
        machineSet.OwnerReferences[i].Kind = "MachineDeployment"

\* valid bounds with max - min > 0 and a replica count above zero
Scalable(resource) ==
    /\ parseScalingBounds(resource.Annotations).err = NoErr
    /\ ParsedRange(resource) > 0
    /\ resource.Spec.Replicas # Nil
    /\ Deref(resource.Spec.Replicas) > 0

\* the cached resources that are eligible groups
EligibleMachineSets == {ms \in machineSets : ~HasDeploymentRef(ms) /\ Scalable(ms)}
EligibleMachineDeployments ==
    IF enableMachineDeployments THEN {md \in machineDeployments : Scalable(md)} ELSE {}

\* C4: with the stores readable, nodeGroups succeeds and returns a group for
\* every eligible MachineSet and MachineDeployment, whatever the bounds
\* metadata of the other cached resources.
C4_MalformedGroupIsSkipped ==
    (call.op = "nodeGroups" /\ call.fault = "none") =>
        \A res \in EligibleMachineSets \cup EligibleMachineDeployments :
            /\ call.ret.err = NoErr
            /\ \E g \in ReturnedGroups : g.resource = res

\* C5: when listing the MachineSets fails, or listing the MachineDeployments
\* fails with deployment grouping enabled, nodeGroups returns an error.
C5_ListErrorIsReturned ==
    ( /\ call.op = "nodeGroups"
      /\ \/ call.fault = "machineSets"
         \/ call.fault = "machineDeployments" /\ enableMachineDeployments )
    => call.ret.err # NoErr

\* C6: every group nodeGroups returns has max - min > 0 and a replica count
\* above zero, an unset count being zero: no resource with equal bounds or
\* with no replicas is in the catalog.
C6_CatalogGroupsCanScale ==
    call.op = "nodeGroups" =>
        \A g \in ReturnedGroups :
            /\ MaxSize(g) - MinSize(g) > 0
            /\ g.resource \in machineSets \cup machineDeployments
            /\ Scalable(g.resource)

\* nodeGroups returned a group while a MachineSet with a wide range and no
\* replicas, and a resource with equal bounds, are cached
C6_Witness ==
    /\ call.op = "nodeGroups"
    /\ call.ret.err = NoErr
    /\ ReturnedGroups # {}
    /\ \E ms \in machineSets :
          /\ ~HasDeploymentRef(ms)
          /\ parseScalingBounds(ms.Annotations).err = NoErr
          /\ ParsedRange(ms) > 0
          /\ Int32PtrDerefOr(ms.Spec.Replicas, 0) = 0
    /\ \E res \in machineSets \cup machineDeployments :
          /\ parseScalingBounds(res.Annotations).err = NoErr
          /\ parseScalingBounds(res.Annotations).min > 0
          /\ ParsedRange(res) = 0

\* C7: nodeGroups returns no group built from a MachineSet that carries a
\* MachineDeployment owner reference, and returns groups built from
\* MachineDeployments only with deployment grouping enabled.
C7_CatalogMembership ==
    call.op = "nodeGroups" =>
        \A g \in ReturnedGroups :
            /\ g.kind = "MachineSet" =>
                  g.resource \in machineSets /\ ~HasDeploymentRef(g.resource)
            /\ g.kind = "MachineDeployment" =>
                  g.resource \in machineDeployments /\ enableMachineDeployments
            /\ g.kind \in {"MachineSet", "MachineDeployment"}

\* nodeGroups returned a group while a scalable MachineSet owned by a
\* MachineDeployment is cached and left out
C7_Witness ==
    /\ call.op = "nodeGroups"
    /\ call.ret.err = NoErr
    /\ ReturnedGroups # {}
    /\ \E ms \in machineSets :
          /\ HasDeploymentRef(ms)
          /\ Scalable(ms)
          /\ \A g \in ReturnedGroups : g.resource # ms

\* ==================================================== the annotation parser
\* parseScalingBounds on its own: the annotations it is handed, and what it
\* returns.
\* the values an annotation is given: integers in the forms Atoi accepts,
\* negative numbers, and strings that are no integer
SizeValues ==
    {<<"0">>, <<"1">>, <<"2">>, <<"1", "0">>, <<"+", "2">>, <<"-", "1">>, <<"-", "0">>,
     <<>>, <<"x">>, <<"1", "x">>, <<"-">>}

\* a value to give an annotation, or Nil to leave the annotation out
OptionalSizeValues == {Nil} \cup {Ptr(v) : v \in SizeValues}

\* the map with k bound to the value v points at, without k when v is Nil
Annotation(k, v) == IF v = Nil THEN EmptyMap ELSE k :> Deref(v)

ParserAnnotations ==
    {Annotation(nodeGroupMinSizeAnnotationKey, mn) @@ Annotation(nodeGroupMaxSizeAnnotationKey, mx) :
        mn \in OptionalSizeValues, mx \in OptionalSizeValues}

CallParseScalingBounds(annotations) ==
    /\ call = Idle
    /\ UNCHANGED <<managerVars, runVars>>
    /\ call' = [op |-> "parseScalingBounds", arg |-> annotations,
                ret |-> parseScalingBounds(annotations)]
    /\ UNCHANGED <<cacheVars, enableMachineDeployments>>

NextParser ==
    \/ \E annotations \in ParserAnnotations : CallParseScalingBounds(annotations)
    \/ Return

SpecParser == Init /\ [][NextParser]_vars

\* what the formulas read off a parseScalingBounds call
HasMin == nodeGroupMinSizeAnnotationKey \in DOMAIN call.arg
HasMax == nodeGroupMaxSizeAnnotationKey \in DOMAIN call.arg
ParsedMin == Atoi(call.arg[nodeGroupMinSizeAnnotationKey])
ParsedMax == Atoi(call.arg[nodeGroupMaxSizeAnnotationKey])
ErrSyntax == "strconv.Atoi: invalid syntax"
InvalidBoundErrors ==
    {errInvalidMinAnnotation, errInvalidMaxAnnotation,
     Wrapf(ErrSyntax, errInvalidMinAnnotation), Wrapf(ErrSyntax, errInvalidMaxAnnotation)}
MissingBoundErrors == {errMissingMinAnnotation, errMissingMaxAnnotation}

\* C14: when parseScalingBounds succeeds the pair it returns satisfies
\* 0 <= min <= max, min is the integer parsed from the minimum annotation (0
\* when that annotation is absent) and max is the integer parsed from the
\* maximum annotation when that one is present; a present value that is no
\* integer or is negative, and a maximum below the minimum, make it fail with
\* an invalid-bound error and a zero pair.
C14_BoundsAreParsedOrInvalid ==
    call.op = "parseScalingBounds" =>
        /\ call.ret.err = NoErr =>
              /\ 0 <= call.ret.min /\ call.ret.min <= call.ret.max
              /\ HasMin => ParsedMin = R(call.ret.min, NoErr)
              /\ ~HasMin => call.ret.min = 0
              /\ HasMax => ParsedMax = R(call.ret.max, NoErr)
        /\ ( \/ HasMin /\ (ParsedMin.err # NoErr \/ ParsedMin.val < 0)
             \/ HasMax /\ (ParsedMax.err # NoErr \/ ParsedMax.val < 0)
             \/ /\ HasMax /\ ParsedMax.err = NoErr
                /\ ParsedMax.val < (IF HasMin THEN ParsedMin.val ELSE 0) )
           => /\ call.ret.err \in InvalidBoundErrors
              /\ call.ret.min = 0 /\ call.ret.max = 0

\* both annotations parse, the maximum is below the minimum, and the call
\* failed with the invalid-maximum error
C14_Witness ==
    /\ call.op = "parseScalingBounds"
    /\ HasMin /\ HasMax
    /\ ParsedMin.err = NoErr /\ ParsedMax.err = NoErr
    /\ 0 <= ParsedMax.val /\ ParsedMax.val < ParsedMin.val
    /\ call.ret = Bounds(0, 0, errInvalidMaxAnnotation)

\* C15: whenever the annotations have no maximum-size key, parseScalingBounds
\* fails with a missing-bound error.
C15_MissingMaxIsMissingBound ==
    (call.op = "parseScalingBounds" /\ ~HasMax) => call.ret.err \in MissingBoundErrors

\* ====================================================== members of a group
\* labels.SelectorFromSet(set).Matches(labels): every pair of the set is among
\* the labels; the empty set selects everything
Matches(selector, labels) ==
    \A k \in DOMAIN selector : k \in DOMAIN labels /\ labels[k] = selector[k]

\* the store availability and the order the Machine lister returns the
\* store's Machines in, during one call
EnvMachines(fault, machineList) ==
    [fault |-> fault, machineSets |-> <<>>, machineDeployments |-> <<>>,
     machines |-> machineList]

\* The informer lister behind listMachines: the Machines of the store the
\* selector matches, in the lister's order, or the store's error.  (A
\* placeholder that returns nil, nil in this revision.)
listMachines(options, env) ==
    IF env.fault = "machines" THEN R(<<>>, errStore)
    ELSE LET selected(machine) == Matches(options, machine.Labels)
         IN  R(SelectSeq(env.machines, selected), NoErr)

\* variant: every Machine the selector matches is taken, whoever owns it
machinesInMachineSetBySelector(machineSet, env) ==
    LET machines_ == listMachines(machineSet.Labels, env)
    IN  IF machines_.err # NoErr THEN R(<<>>, machines_.err)
        ELSE R(machines_.val, NoErr)

machinesInMachineSet(machineSet, env) ==
    LET machines_ == listMachines(machineSet.Labels, env)
        owned(machine) == machineIsOwnedByMachineSet(machine, machineSet)
    IN  IF machines_.err # NoErr THEN R(<<>>, machines_.err)
        ELSE R(SelectSeq(machines_.val, owned), NoErr)

findNodeByNodeName(name, env) ==
    IF env.fault = "nodes" THEN R(Nil, errStore)
    ELSE LET item == GetByKey(nodes, name)
         IN  IF item = {} THEN R(Nil, NoErr)
             ELSE R(Ptr(CHOOSE node \in item : TRUE), NoErr)

NodeRef(kind, name) == [Kind |-> kind, Name |-> name]

\* variant: the kind of the node reference is not looked at
nodeNamesByNodeRefOfAnyKind(machine, env) ==
    IF machine.Status.NodeRef = Nil THEN R(<<>>, NoErr)
    ELSE LET node == findNodeByNodeName(Deref(machine.Status.NodeRef).Name, env)
         IN  IF node.err # NoErr
             THEN R(<<>>, "unknown node " \o Deref(machine.Status.NodeRef).Name)
             ELSE IF node.val # Nil THEN R(<<Deref(node.val).Spec.ProviderID>>, NoErr)
             ELSE R(<<>>, NoErr)

\* the second half of the loop body of machineSetNodeNames: what a Machine
\* adds to nodes through Status.NodeRef
nodeNamesByNodeRef(machine, env) ==
    IF machine.Status.NodeRef = Nil THEN R(<<>>, NoErr)
    ELSE IF Deref(machine.Status.NodeRef).Kind # "Node" THEN R(<<>>, NoErr)
    ELSE LET node == findNodeByNodeName(Deref(machine.Status.NodeRef).Name, env)
         IN  IF node.err # NoErr
             THEN R(<<>>, "unknown node " \o Deref(machine.Status.NodeRef).Name)
             ELSE IF node.val # Nil THEN R(<<Deref(node.val).Spec.ProviderID>>, NoErr)
             ELSE R(<<>>, NoErr)

\* the loop body of machineSetNodeNames: what a Machine adds to nodes
nodeNamesOfMachine(machine, env) ==
    IF machine.Spec.ProviderID # Nil /\ Deref(machine.Spec.ProviderID) # ""
    THEN LET node == findNodeByProviderID(Deref(machine.Spec.ProviderID), env)
         IN  IF node.err # NoErr THEN R(<<>>, node.err)
             ELSE IF node.val # Nil THEN R(<<Deref(node.val).Spec.ProviderID>>, NoErr)
             ELSE nodeNamesByNodeRef(machine, env)
    ELSE nodeNamesByNodeRef(machine, env)

RECURSIVE nodeNamesLoop(_, _, _)
\* the range loop of machineSetNodeNames
nodeNamesLoop(machineList, nodeNames, env) ==
    IF machineList = <<>> THEN R(nodeNames, NoErr)
    ELSE LET r == nodeNamesOfMachine(Head(machineList), env)
         IN  IF r.err # NoErr THEN R(<<>>, r.err)
             ELSE nodeNamesLoop(Tail(machineList), nodeNames \o r.val, env)

machineSetNodeNames(machineSet, env) ==
    LET machines_ == machinesInMachineSet(machineSet, env)
    IN  IF machines_.err # NoErr
        THEN R(<<>>, "error listing machines: " \o machines_.err)
        ELSE nodeNamesLoop(machines_.val, <<>>, env)

\* ---------------------------------------------- the resources of a group
GroupLabels == {EmptyMap, "k" :> "v"}
NodeRefs == {Nil, Ptr(NodeRef("Node", "n1")), Ptr(NodeRef("Pod", "n1"))}

MemberMachine(name, providerID, ownerReferences, labels, nodeRef) ==
    [Machine(name, providerID, ownerReferences) EXCEPT
        !.Labels = labels, !.Status.NodeRef = nodeRef]

\* m1 in every shape; m2 as a second Machine of the MachineSet of UID 1
MemberMachineValues ==
    {MemberMachine("m1", providerID, ownerReferences, labels, nodeRef) :
        providerID \in {Nil, Ptr("")} \cup {Ptr(p) : p \in ProviderIDs},
        ownerReferences \in {<<>>} \cup {<<OwnerRef("MachineSet", "ms1", uid)>> : uid \in UIDs},
        labels \in GroupLabels, nodeRef \in NodeRefs}
    \cup {MemberMachine("m2", providerID, <<MachineSetRef>>, "k" :> "v", nodeRef) :
            providerID \in {Nil} \cup {Ptr(p) : p \in ProviderIDs},
            nodeRef \in {Nil, Ptr(NodeRef("Node", "n1"))}}

MemberNodeValues ==
    {Node("n1", providerID, EmptyMap) : providerID \in {""} \cup ProviderIDs}
    \cup {Node("n2", providerID, EmptyMap) : providerID \in ProviderIDs}

\* the MachineSets membership is asked about
MachineSetArguments ==
    {[MachineSet("ms1", uid, EmptyMap, Ptr(1), <<>>) EXCEPT !.Labels = labels] :
        uid \in UIDs, labels \in GroupLabels}

CallMachinesInMachineSet(machineSet, fault) ==
    /\ call = Idle
    /\ UNCHANGED <<managerVars, runVars>>
    /\ \E machineList \in Enumerations(machines) :
          call' = [op |-> "machinesInMachineSet", arg |-> machineSet, fault |-> fault,
                   listed |-> machineList,
                   ret |-> machinesInMachineSet(machineSet, EnvMachines(fault, machineList))]
    /\ UNCHANGED <<cacheVars, enableMachineDeployments>>

CallMachineSetNodeNames(machineSet, fault) ==
    /\ call = Idle
    /\ UNCHANGED <<managerVars, runVars>>
    /\ \E machineList \in Enumerations(machines) :
          call' = [op |-> "machineSetNodeNames", arg |-> machineSet, fault |-> fault,
                   listed |-> machineList,
                   ret |-> machineSetNodeNames(machineSet, EnvMachines(fault, machineList))]
    /\ UNCHANGED <<cacheVars, enableMachineDeployments>>

CallFindNodeByProviderID(providerID, fault) ==
    /\ call = Idle
    /\ UNCHANGED <<managerVars, runVars>>
    /\ call' = [op |-> "findNodeByProviderID", arg |-> providerID, fault |-> fault,
                ret |-> findNodeByProviderID(providerID, Env(fault, <<>>, <<>>))]
    /\ UNCHANGED <<cacheVars, enableMachineDeployments>>

CallFindMachineByProviderID(providerID, fault) ==
    /\ call = Idle
    /\ UNCHANGED <<managerVars, runVars>>
    /\ call' = [op |-> "findMachineByProviderID", arg |-> providerID, fault |-> fault,
                ret |-> findMachineByProviderID(providerID, Env(fault, <<>>, <<>>))]
    /\ UNCHANGED <<cacheVars, enableMachineDeployments>>

\* Node and Machine events, the membership queries and the lookups by
\* provider id they and nodeGroupForNode rest on.
NextMembers ==
    \/ \E node \in MemberNodeValues : UpsertNode(node)
    \/ \E node \in MemberNodeValues : RemoveNode(node)
    \/ \E machine \in MemberMachineValues : UpsertMachine(machine)
    \/ \E machine \in MemberMachineValues : RemoveMachine(machine)
    \/ \E machineSet \in MachineSetArguments, fault \in {"none", "machines"} :
          CallMachinesInMachineSet(machineSet, fault)
    \/ \E machineSet \in MachineSetArguments, fault \in {"none", "machines", "nodes"} :
          CallMachineSetNodeNames(machineSet, fault)
    \/ \E providerID \in ProviderIDs, fault \in {"none", "nodes"} :
          CallFindNodeByProviderID(providerID, fault)
    \/ \E providerID \in ProviderIDs, fault \in {"none", "machines", "nodes"} :
          CallFindMachineByProviderID(providerID, fault)
    \/ \E node \in NodeArguments, fault \in {"none", "machines", "nodes"} :
          CallNodeGroupForNode(node, fault)
    \/ Return

SpecMembers == Init /\ [][NextMembers]_vars

\* ------------------------------------------------- claims about membership
\* machine has a MachineSet owner reference with the UID of machineSet
OwnedByUID(machine, machineSet) ==
    \E i \in DOMAIN machine.OwnerReferences :
        /\ machine.OwnerReferences[i].Kind = "MachineSet"
        /\ machine.OwnerReferences[i].UID = machineSet.UID

\* machine is selected by the labels of machineSet and owned by its UID
Qualifies(machine, machineSet) ==
    Matches(machineSet.Labels, machine.Labels) /\ OwnedByUID(machine, machineSet)

\* the Machines of the call's listing that qualify for the MachineSet asked
\* about, in the order listed
QualifyingOfCall ==
    LET qualifies(machine) == Qualifies(machine, call.arg)
    IN  SelectSeq(call.listed, qualifies)

\* C11: every Machine machinesInMachineSet returns is a cached Machine that
\* the MachineSet's label selector matches and whose MachineSet owner
\* reference has the MachineSet's UID, and machineSetNodeNames returns at
\* most one entry per such Machine: a Machine of another owner UID, or of no
\* owner, adds none.
C11_MembersMatchAndAreOwned ==
    /\ call.op = "machinesInMachineSet" =>
          \A i \in DOMAIN call.ret.val :
              /\ call.ret.val[i] \in machines
              /\ Matches(call.arg.Labels, call.ret.val[i].Labels)
              /\ OwnedByUID(call.ret.val[i], call.arg)
    /\ call.op = "machineSetNodeNames" =>
          Len(call.ret.val) <= Len(QualifyingOfCall)

\* a Machine the selector matches is cached with another owner UID or with
\* no owner, and machinesInMachineSet returned the others without it
C11_Witness ==
    /\ call.op = "machinesInMachineSet"
    /\ call.fault = "none"
    /\ call.ret.val # <<>>
    /\ \E machine \in machines :
          /\ Matches(call.arg.Labels, machine.Labels)
          /\ ~OwnedByUID(machine, call.arg)
          /\ \A i \in DOMAIN call.ret.val : call.ret.val[i] # machine

HasProviderID(machine) ==
    machine.Spec.ProviderID # Nil /\ Deref(machine.Spec.ProviderID) # ""

\* the provider id of the one Node of S, no entry when S is empty
ProviderIDOf(S) == IF S = {} THEN <<>> ELSE <<(CHOOSE node \in S : TRUE).Spec.ProviderID>>

\* the cached Nodes machine's node reference names, when it has one of kind
\* "Node"
NodesByRef(machine) ==
    IF machine.Status.NodeRef # Nil /\ Deref(machine.Status.NodeRef).Kind = "Node"
    THEN {node \in nodes : node.Name = Deref(machine.Status.NodeRef).Name}
    ELSE {}

NodesByProviderID(machine) ==
    ByIndex(nodes, nodeIndex, Deref(machine.Spec.ProviderID))

\* the entry of a Machine: through the index when it carries a provider id,
\* through the node reference otherwise; with fallback, also through the
\* node reference when the index lists no Node for its provider id
EntryOf(machine, fallback) ==
    IF HasProviderID(machine) /\ (~fallback \/ NodesByProviderID(machine) # {})
    THEN ProviderIDOf(NodesByProviderID(machine))
    ELSE ProviderIDOf(NodesByRef(machine))

RECURSIVE EntriesOf(_, _)
EntriesOf(machineList, fallback) ==
    IF machineList = <<>> THEN <<>>
    ELSE EntryOf(Head(machineList), fallback) \o EntriesOf(Tail(machineList), fallback)

\* no provider id has two Nodes in the node index
NodeIndexIsFunctional ==
    \A p \in ProviderIDs : Cardinality(ByIndex(nodes, nodeIndex, p)) <= 1

\* C12 as stated: with the stores readable and no duplicate in the node
\* index, machineSetNodeNames succeeds and lists, for each qualifying Machine
\* in turn, the Node the index has for its provider id when the Machine
\* carries one, and otherwise the Node its node reference of kind "Node"
\* names; a Machine that resolves to no Node adds nothing.
C12_IndexOrElseNodeRef ==
    (call.op = "machineSetNodeNames" /\ call.fault = "none" /\ NodeIndexIsFunctional)
    => call.ret = R(EntriesOf(QualifyingOfCall, FALSE), NoErr)

\* C12, amended: as above, but a Machine whose provider id has no Node in
\* the index is resolved through its node reference like a Machine without
\* provider id.
C12_IndexThenNodeRef ==
    (call.op = "machineSetNodeNames" /\ call.fault = "none" /\ NodeIndexIsFunctional)
    => call.ret = R(EntriesOf(QualifyingOfCall, TRUE), NoErr)

\* a qualifying Machine without provider id and without a usable node
\* reference is skipped while another one, whose provider id has no Node in
\* the index, is listed through its node reference
C12_Witness ==
    /\ call.op = "machineSetNodeNames"
    /\ call.fault = "none"
    /\ NodeIndexIsFunctional
    /\ call.ret.err = NoErr
    /\ Len(call.ret.val) = 1
    /\ \E i, j \in DOMAIN QualifyingOfCall :
          /\ ~HasProviderID(QualifyingOfCall[i])
          /\ \/ QualifyingOfCall[i].Status.NodeRef = Nil
             \/ Deref(QualifyingOfCall[i].Status.NodeRef).Kind # "Node"
          /\ HasProviderID(QualifyingOfCall[j])
          /\ NodesByProviderID(QualifyingOfCall[j]) = {}
          /\ NodesByRef(QualifyingOfCall[j]) # {}

\* the provider ids the index lists more than one object under
DuplicatedNodeIDs == {p \in ProviderIDs : Cardinality(ByIndex(nodes, nodeIndex, p)) > 1}
DuplicatedMachineIDs ==
    {p \in ProviderIDs : Cardinality(ByIndex(machines, machineIndex, p)) > 1}

\* C13: findNodeByProviderID and findMachineByProviderID return an error and
\* no object when the index lists more than one object under the id, and
\* nodeGroupForNode and machineSetNodeNames fail when the lookup they make
\* meets such an id.
C13_DuplicateIsError ==
    /\ (call.op = "findNodeByProviderID" /\ call.arg \in DuplicatedNodeIDs)
          => call.ret.err # NoErr /\ call.ret.val = Nil
    /\ ( /\ call.op = "findMachineByProviderID"
         /\ \/ call.arg \in DuplicatedMachineIDs
            \/ ByIndex(machines, machineIndex, call.arg) = {} /\ call.arg \in DuplicatedNodeIDs )
          => call.ret.err # NoErr /\ call.ret.val = Nil
    /\ ( /\ call.op = "nodeGroupForNode"
         /\ \/ call.arg.Spec.ProviderID \in DuplicatedMachineIDs
            \/ IndexedMachines = {} /\ call.arg.Spec.ProviderID \in DuplicatedNodeIDs )
          => call.ret.err # NoErr /\ call.ret.val = Nil
    /\ ( /\ call.op = "machineSetNodeNames"
         /\ \E i \in DOMAIN QualifyingOfCall :
               /\ HasProviderID(QualifyingOfCall[i])
               /\ Deref(QualifyingOfCall[i].Spec.ProviderID) \in DuplicatedNodeIDs )
          => call.ret.err # NoErr /\ call.ret.val = <<>>

\* two Nodes are indexed under the provider id of a qualifying Machine and
\* machineSetNodeNames failed with the internal error
C13_Witness ==
    /\ call.op = "machineSetNodeNames"
    /\ call.fault = "none"
    /\ \E i \in DOMAIN QualifyingOfCall :
          /\ HasProviderID(QualifyingOfCall[i])
          /\ Deref(QualifyingOfCall[i].Spec.ProviderID) \in DuplicatedNodeIDs
    /\ call.ret = R(<<>>, "internal error; expected len==1")

\* ======================================================= the refresh gate
\* bounds: the clock advances TickSeconds at a time up to MaxNow, and the
\* watched resources change at most MaxChanges times
TickSeconds == 15
MaxNow == 105
MaxChanges == 2

errSnapshot == "snapshot error"

\* variant: the snapshot is never taken for fresh
snapshotIsFreshNever(lastRefresh_, now_, clusterSnapshot_) == FALSE

\* the test Refresh starts with: m.lastRefresh.Add(refreshInterval).After(time.Now())
\* && m.clusterSnapshot != nil
snapshotIsFresh(lastRefresh_, now_, clusterSnapshot_) ==
    lastRefresh_ + refreshInterval > now_ /\ clusterSnapshot_ # Nil

\* the other callers that are in a call are no longer alone in theirs
Joined(c) ==
    [d \in Callers |->
        IF d # c /\ refresher[d].pc # "idle"
        THEN [refresher[d] EXCEPT !.alone = FALSE]
        ELSE refresher[d]]

\* Refresh, its first statement: return nil when the snapshot is fresh, go on
\* to rebuild when it is not.  No lock is held: the read of lastRefresh races
\* with the write of RefreshStamp, and takes the test either way, as it does
\* here when the step comes before or after that write.
RefreshCheck(c) ==
    /\ refresher[c].pc = "idle"
    /\ UNCHANGED <<cacheVars, enableMachineDeployments, call, runVars>>
    /\ refresher' =
          [Joined(c) EXCEPT ![c] =
              Call(IF snapshotIsFresh(lastRefresh, now, clusterSnapshot)
                   THEN "returned" ELSE "rebuild",
                   now, lastRefresh, clusterSnapshot, cluster,
                   \A d \in Callers \ {c} : refresher[d].pc = "idle")]
    /\ UNCHANGED <<lastRefresh, clusterSnapshot, now, cluster>>

\* variant: a failed rebuild still records the time
RefreshRebuildStampsFailure(c) ==
    /\ refresher[c].pc = "rebuild"
    /\ UNCHANGED <<cacheVars, enableMachineDeployments, call, runVars>>
    /\ \/ /\ refresher' = [refresher EXCEPT ![c].s = Ptr(Snapshot(Ptr(cluster))),
                                            ![c].pc = "stamp"]
          /\ UNCHANGED lastRefresh
       \/ /\ refresher' = [refresher EXCEPT ![c].err = errSnapshot, ![c].pc = "returned",
                                               ![c].lastRefreshOnReturn = now]
          /\ lastRefresh' = now
    /\ UNCHANGED <<clusterSnapshot, now, cluster>>

\* s, err := getClusterSnaphot(m): a snapshot of the watched resources as
\* they are, or an error, with which Refresh returns at once
RefreshRebuild(c) ==
    /\ refresher[c].pc = "rebuild"
    /\ UNCHANGED <<cacheVars, enableMachineDeployments, call, runVars>>
    /\ \/ refresher' = [refresher EXCEPT ![c].s = Ptr(Snapshot(Ptr(cluster))),
                                         ![c].pc = "stamp"]
       \/ refresher' = [refresher EXCEPT ![c].err = errSnapshot, ![c].pc = "returned",
                                         ![c].lastRefreshOnReturn = lastRefresh]
    /\ UNCHANGED <<lastRefresh, clusterSnapshot, now, cluster>>

\* m.lastRefresh = time.Now()
RefreshStamp(c) ==
    /\ refresher[c].pc = "stamp"
    /\ UNCHANGED <<cacheVars, enableMachineDeployments, call, runVars>>
    /\ lastRefresh' = now
    /\ refresher' = [refresher EXCEPT ![c].pc = "install"]
    /\ UNCHANGED <<clusterSnapshot, now, cluster>>

\* m.setClusterState(s), under clusterSnapshotMutex, and return nil
RefreshInstall(c) ==
    /\ refresher[c].pc = "install"
    /\ UNCHANGED <<cacheVars, enableMachineDeployments, call, runVars>>
    /\ clusterSnapshot' = refresher[c].s
    /\ refresher' = [refresher EXCEPT ![c].pc = "returned",
                                      ![c].lastRefreshOnReturn = lastRefresh]
    /\ UNCHANGED <<lastRefresh, now, cluster>>

\* MachineSetForNode: the query reads the installed snapshot through
\* getClusterState, under clusterSnapshotMutex
MachineSetForNode(c) ==
    /\ refresher[c].pc = "returned"
    /\ UNCHANGED <<cacheVars, enableMachineDeployments, call, runVars>>
    /\ refresher' = [refresher EXCEPT ![c].observed = clusterSnapshot,
                                      ![c].pc = "idle", ![c].done = TRUE]
    /\ UNCHANGED <<lastRefresh, clusterSnapshot, now, cluster>>

\* time passes
Tick ==
    /\ now + TickSeconds <= MaxNow
    /\ UNCHANGED <<cacheVars, enableMachineDeployments, call, runVars>>
    /\ now' = now + TickSeconds
    /\ UNCHANGED <<lastRefresh, clusterSnapshot, cluster, refresher>>

\* the watched resources change
ClusterChange ==
    /\ cluster < MaxChanges
    /\ UNCHANGED <<cacheVars, enableMachineDeployments, call, runVars>>
    /\ cluster' = cluster + 1
    /\ UNCHANGED <<lastRefresh, clusterSnapshot, now, refresher>>

NextRefresh ==
    \/ \E c \in Callers : RefreshCheck(c)
    \/ \E c \in Callers : RefreshRebuild(c)
    \/ \E c \in Callers : RefreshStamp(c)
    \/ \E c \in Callers : RefreshInstall(c)
    \/ \E c \in Callers : MachineSetForNode(c)
    \/ Tick
    \/ ClusterChange

SpecRefresh == Init /\ [][NextRefresh]_vars

\* -------------------------------------------- claims about the refresh gate
\* caller c has completed a resolver call; it ran with no other call in
\* progress
Completed(c) == refresher[c].pc = "idle" /\ refresher[c].done
Sequential(c) == Completed(c) /\ refresher[c].alone
Succeeded(c) == Sequential(c) /\ refresher[c].err = NoErr

\* the call of c began refreshInterval or more after the last rebuild
\* recorded
BeganStale(c) ==
    refresher[c].seenLastRefresh + refreshInterval <= refresher[c].startedAt

\* the revision the snapshot p points at was built from
BuiltFrom(p) == Deref(Deref(p).builtFrom)

\* the call of c has completed and its Refresh returned no error
Returned(c) == Completed(c) /\ refresher[c].err = NoErr

\* C16: two resolver calls that return from Refresh under the same last
\* rebuild, hence less than refreshInterval after it, observe the same
\* snapshot; a call begun refreshInterval or more after the last rebuild
\* observes a snapshot rebuilt for it, no older than the resources were when
\* the call began.
C16_CallsUnderOneRebuildAgree ==
    /\ \A c, d \in Callers :
          ( /\ Returned(c) /\ Returned(d)
            /\ refresher[c].lastRefreshOnReturn = refresher[d].lastRefreshOnReturn )
          => refresher[c].observed = refresher[d].observed
    /\ \A c \in Callers :
          (Returned(c) /\ BeganStale(c)) =>
              BuiltFrom(refresher[c].observed) >= refresher[c].clusterAtStart

\* what does hold of resolver calls made one at a time: a call begun less
\* than refreshInterval after the last rebuild does not rebuild and observes
\* the snapshot installed before it; two calls that return from Refresh
\* under the same last rebuild observe the same snapshot; a call begun
\* refreshInterval or more after the last rebuild observes the snapshot it
\* built during the call.
SequentialCallsAgree ==
    /\ \A c \in Callers :
          (Sequential(c) /\ ~BeganStale(c) /\ refresher[c].seenSnapshot # Nil) =>
              /\ refresher[c].s = Nil /\ refresher[c].err = NoErr
              /\ refresher[c].observed = refresher[c].seenSnapshot
    /\ \A c, d \in Callers :
          ( /\ Succeeded(c) /\ Succeeded(d)
            /\ refresher[c].lastRefreshOnReturn = refresher[d].lastRefreshOnReturn )
          => refresher[c].observed = refresher[d].observed
    /\ \A c \in Callers :
          (Succeeded(c) /\ BeganStale(c)) =>
              /\ refresher[c].s # Nil
              /\ refresher[c].observed = refresher[c].s
              /\ BuiltFrom(refresher[c].observed) >= refresher[c].clusterAtStart

\* the step in which the rebuild of caller c fails
RebuildFails(c) ==
    /\ refresher[c].pc = "rebuild"
    /\ refresher'[c].pc # "rebuild"
    /\ refresher'[c].s = Nil

\* a call of c, made with no other call in progress, whose rebuild failed,
\* returned with lastRefresh as it found it and observed the snapshot
\* installed before it; while both stay as they were the snapshot is not
\* fresh
FailedCallChangedNothing(c) ==
    (Sequential(c) /\ refresher[c].err # NoErr) =>
        /\ refresher[c].s = Nil
        /\ BeganStale(c) \/ refresher[c].seenSnapshot = Nil
        /\ refresher[c].lastRefreshOnReturn = refresher[c].seenLastRefresh
        /\ refresher[c].observed = refresher[c].seenSnapshot
        /\ ( /\ lastRefresh = refresher[c].seenLastRefresh
             /\ clusterSnapshot = refresher[c].seenSnapshot )
           => ~snapshotIsFresh(lastRefresh, now, clusterSnapshot)

\* C17: the step in which a rebuild fails leaves lastRefresh and the
\* installed snapshot as they were and returns the error to the caller; the
\* query that follows answers from the snapshot installed before, and the
\* snapshot is still not fresh, so that the next Refresh rebuilds.
C17_FailedRebuildKeepsSnapshot ==
    /\ [][\A c \in Callers :
            RebuildFails(c) =>
                /\ lastRefresh' = lastRefresh
                /\ clusterSnapshot' = clusterSnapshot
                /\ refresher'[c].pc = "returned"
                /\ refresher'[c].err = errSnapshot]_vars
    /\ [](\A c \in Callers : FailedCallChangedNothing(c))

\* a rebuild failed after an earlier one had succeeded, and the call
\* observed the earlier snapshot, by now out of date
C17_Witness ==
    \E c \in Callers :
        /\ Sequential(c)
        /\ refresher[c].err # NoErr
        /\ refresher[c].observed # Ptr(newEmptySnapshot)
        /\ refresher[c].observed = clusterSnapshot
        /\ BuiltFrom(refresher[c].observed) < cluster
        /\ lastRefresh = refresher[c].seenLastRefresh

\* the callers that are between the staleness test of Refresh and its
\* return
Rebuilding == {c \in Callers : refresher[c].pc \in {"rebuild", "stamp", "install"}}

\* C18: at most one caller at a time is between the staleness test of
\* Refresh and the installation of the snapshot it built.
C18_RebuildsDoNotOverlap == Cardinality(Rebuilding) <= 1

\* ================================================== run: the wait for sync
errSyncing == "syncing caches failed"

\* variant: the MachineSet informer is not waited for
syncFuncsWithoutMachineSets(enabled) ==
    {"nodes", "machines"} \cup (IF enabled THEN {"machineDeployments"} ELSE {})

\* syncFuncs: the informers run waits for
syncFuncs(enabled) ==
    {"nodes", "machines", "machineSets"}
        \cup (IF enabled THEN {"machineDeployments"} ELSE {})

\* the informers each factory starts; the constructor creates the
\* MachineDeployment informer only when deployments are enabled
kubeInformers == {"nodes"}
clusterInformers(enabled) ==
    {"machines", "machineSets"} \cup (IF enabled THEN {"machineDeployments"} ELSE {})

\* the informers started so far
Started ==
    (IF runner.pc # "start" THEN kubeInformers ELSE {})
        \cup (IF runner.pc \notin {"start", "startedKube"}
              THEN clusterInformers(enableMachineDeployments) ELSE {})

\* c.kubeInformerFactory.Start(stopCh)
RunStartKube ==
    /\ runner.pc = "start"
    /\ runner' = [runner EXCEPT !.pc = "startedKube"]
    /\ UNCHANGED <<cacheVars, enableMachineDeployments, call, managerVars, synced, stopCh>>

\* c.clusterInformerFactory.Start(stopCh)
RunStartCluster ==
    /\ runner.pc = "startedKube"
    /\ runner' = [runner EXCEPT !.pc = "waiting"]
    /\ UNCHANGED <<cacheVars, enableMachineDeployments, call, managerVars, synced, stopCh>>

\* a started informer completes its initial list, unless stopped
Sync(informer) ==
    /\ informer \in Started
    /\ ~stopCh
    /\ ~synced[informer]
    /\ synced' = [synced EXCEPT ![informer] = TRUE]
    /\ UNCHANGED <<cacheVars, enableMachineDeployments, call, managerVars, stopCh, runner>>

\* the stop channel is closed
Stop ==
    /\ ~stopCh
    /\ stopCh' = TRUE
    /\ UNCHANGED <<cacheVars, enableMachineDeployments, call, managerVars, synced, runner>>

\* cache.WaitForCacheSync(stopCh, syncFuncs...): true once every informer
\* waited for has synced, false once the stop channel is closed, either when
\* both are so
RunWait ==
    /\ runner.pc = "waiting"
    /\ \/ /\ \A informer \in syncFuncs(enableMachineDeployments) : synced[informer]
          /\ runner' = [runner EXCEPT !.pc = "synced"]
       \/ /\ stopCh
          /\ runner' = [runner EXCEPT !.pc = "aborted"]
    /\ UNCHANGED <<cacheVars, enableMachineDeployments, call, managerVars, synced, stopCh>>

\* variant: run returns nil whatever the wait says
RunReturnIgnoresWait ==
    /\ runner.pc \in {"synced", "aborted"}
    /\ runner' = [pc |-> "done", ret |-> NoErr]
    /\ UNCHANGED <<cacheVars, enableMachineDeployments, call, managerVars, synced, stopCh>>

\* if !cache.WaitForCacheSync(...) { return fmt.Errorf("syncing caches
\* failed") }; return nil
RunReturn ==
    /\ runner.pc \in {"synced", "aborted"}
    /\ runner' = [pc |-> "done",
                  ret |-> IF runner.pc = "synced" THEN NoErr ELSE errSyncing]
    /\ UNCHANGED <<cacheVars, enableMachineDeployments, call, managerVars, synced, stopCh>>

NextRun ==
    \/ RunStartKube
    \/ RunStartCluster
    \/ \E informer \in Informers : Sync(informer)
    \/ Stop
    \/ RunWait
    \/ RunReturn

SpecRun == Init /\ [][NextRun]_vars

\* run is a goroutine that keeps running, and the wait polls on a timer:
\* each of its steps is taken once it stays possible
SpecRunFair ==
    /\ SpecRun
    /\ WF_vars(RunStartKube)
    /\ WF_vars(RunStartCluster)
    /\ WF_vars(RunWait)
    /\ WF_vars(RunReturn)

\* ------------------------------------------------------- claims about run
ReturnedNil == runner.pc = "done" /\ runner.ret = NoErr
ReturnedError == runner.pc = "done" /\ runner.ret # NoErr

\* every informer of an enabled kind has synced
EnabledSynced ==
    /\ synced["nodes"] /\ synced["machines"] /\ synced["machineSets"]
    /\ enableMachineDeployments => synced["machineDeployments"]

\* C19: run returns nil only when the Node, Machine and MachineSet informers
\* have synced, and the MachineDeployment informer too when deployments are
\* enabled; with deployments disabled it returns nil on the three alone, the
\* MachineDeployment informer not being among those waited for.
C19_SuccessOnlyAfterSync ==
    /\ ReturnedNil => EnabledSynced
    /\ runner.pc = "synced" => EnabledSynced
    /\ ~enableMachineDeployments =>
          /\ "machineDeployments" \notin syncFuncs(enableMachineDeployments)
          /\ (runner.pc = "waiting" /\ EnabledSynced) => ENABLED RunWait

\* run returned nil with deployments disabled and the MachineDeployment
\* informer not synced
C19_Witness ==
    /\ ReturnedNil
    /\ ~enableMachineDeployments
    /\ ~synced["machineDeployments"]
    /\ ~stopCh

\* stopCh was closed before every informer of an enabled kind had synced
StoppedBeforeSync == stopCh /\ ~EnabledSynced

NodesWithProviderID == {node \in nodes : node.Spec.ProviderID # ""}

\* C22: after any Node events the store holds one Node per key and the
\* provider-id index lists, under each provider id, exactly the stored Nodes
\* that carry it: no entry is doubled by a repeated upsert, none is left of
\* a removed or re-identified Node, and a Node with an empty provider id is
\* under no key.
C22_NodeIndexMatchesStore ==
    /\ \A node, other \in nodes : NodeKey(node) = NodeKey(other) => node = other
    /\ nodeIndex = {<<node.Spec.ProviderID, NodeKey(node)>> : node \in NodesWithProviderID}
    /\ \A providerID \in ProviderIDs \cup {""} :
          ByIndex(nodes, nodeIndex, providerID) =
              {node \in NodesWithProviderID : node.Spec.ProviderID = providerID}

\* a Node without provider id is stored next to an indexed one
C22_Witness ==
    /\ \E node \in nodes : node.Spec.ProviderID = ""
    /\ \E node \in nodes : node.Spec.ProviderID # ""
    /\ Cardinality(nodeIndex) = 1

\* ------------------------------------- claims about the refresh interval
\* caller c has begun a call, so that its record tells what Refresh found
Began(c) == refresher[c].pc # "idle" \/ refresher[c].done

\* the Refresh of caller c went on to rebuild
Rebuilt(c) ==
    \/ refresher[c].pc \in {"rebuild", "stamp", "install"}
    \/ refresher[c].s # Nil
    \/ refresher[c].err # NoErr

\* C25: Refresh rebuilds exactly when there is no snapshot or more than
\* refreshInterval has passed since lastRefresh; with a snapshot and
\* refreshInterval or less passed it returns without rebuilding.
C25_RebuildsAfterInterval ==
    \A c \in Callers :
        Began(c) =>
            ( Rebuilt(c) <=>
                \/ refresher[c].seenSnapshot = Nil
                \/ refresher[c].startedAt - refresher[c].seenLastRefresh > refreshInterval )

\* ==================================================== owner reference scans
\* bound: the longest owner-reference list scanned
MaxRefs == 2

\* owner references of both kinds, with and without a name
RefValues ==
    {OwnerRef(kind, name, 1) :
        kind \in {"MachineSet", "MachineDeployment"}, name \in {"", "a", "b"}}

RefLists == UNION {[1..n -> RefValues] : n \in 0..MaxRefs}

CallMachineOwnerRef(ownerReferences) ==
    /\ call = Idle
    /\ UNCHANGED <<managerVars, runVars>>
    /\ call' = [op |-> "machineOwnerRef", arg |-> ownerReferences, kind |-> "MachineSet",
                ret |-> machineOwnerRef(Machine("m1", Nil, ownerReferences))]
    /\ UNCHANGED <<cacheVars, enableMachineDeployments>>

CallMachineSetMachineDeploymentRef(ownerReferences) ==
    /\ call = Idle
    /\ UNCHANGED <<managerVars, runVars>>
    /\ call' = [op |-> "machineSetMachineDeploymentRef", arg |-> ownerReferences,
                kind |-> "MachineDeployment",
                ret |-> machineSetMachineDeploymentRef(
                            MachineSet("ms1", 1, EmptyMap, Nil, ownerReferences))]
    /\ UNCHANGED <<cacheVars, enableMachineDeployments>>

NextOwnerRefs ==
    \/ \E ownerReferences \in RefLists : CallMachineOwnerRef(ownerReferences)
    \/ \E ownerReferences \in RefLists : CallMachineSetMachineDeploymentRef(ownerReferences)
    \/ Return

SpecOwnerRefs == Init /\ [][NextOwnerRefs]_vars

\* ------------------------------------------- claims about owner references
\* the places of the list call.arg that hold a named reference of the
\* parent kind looked for
NamedParents ==
    {i \in DOMAIN call.arg : call.arg[i].Kind = call.kind /\ call.arg[i].Name # ""}

\* C26: machineOwnerRef and machineSetMachineDeploymentRef return the first
\* reference of the list that is of the parent kind and has a name, and none
\* when the list has no such reference: a nameless reference of the parent
\* kind is passed over.
C26_FirstNamedParent ==
    call # Idle =>
        IF NamedParents = {} THEN call.ret = Nil
        ELSE call.ret = Ptr(call.arg[CHOOSE i \in NamedParents : \A j \in NamedParents : i <= j])

\* =============================================== listing within a namespace
Namespaces == {"ns1", "ns2"}

\* a MachineSet of the same name in each namespace, with and without room
\* to scale
NamespacedMachineSetValues ==
    {[MachineSet("ms1", 1, annotations, Ptr(1), <<>>) EXCEPT !.Namespace = namespace] :
        namespace \in Namespaces,
        annotations \in {MinMax(<<"1">>, <<"2">>), MinMax(<<"1">>, <<"1">>)}}

\* filterMachineSets(namespace, f) with the callback of machineSetNodeGroups
CallFilterMachineSets(namespace, fault) ==
    /\ call = Idle
    /\ UNCHANGED <<managerVars, runVars>>
    /\ \E machineSetList \in Enumerations(machineSets) :
          call' = [op |-> "filterMachineSets", arg |-> namespace, fault |-> fault,
                   ret |-> filterMachineSets(namespace, <<>>, Env(fault, machineSetList, <<>>))]
    /\ UNCHANGED <<cacheVars, enableMachineDeployments>>

NextNamespaces ==
    \/ \E machineSet \in NamespacedMachineSetValues : UpsertMachineSet(machineSet)
    \/ \E machineSet \in NamespacedMachineSetValues : RemoveMachineSet(machineSet)
    \/ \E namespace \in Namespaces \cup {NamespaceAll}, fault \in {"none", "machineSets"} :
          CallFilterMachineSets(namespace, fault)
    \/ Return

SpecNamespaces == Init /\ [][NextNamespaces]_vars

\* ----------------------------------------------- claims about namespaces
\* the MachineSets the groups returned wrap
ListedResources == {call.ret.val[i].resource : i \in DOMAIN call.ret.val}

\* C24: filterMachineSets called with a namespace hands on only MachineSets
\* of that namespace, so that the groups built wrap resources of that
\* namespace alone; called with NamespaceAll it covers every namespace.
C24_GroupsOfTheNamespace ==
    (call # Idle /\ call.fault = "none") =>
        /\ call.ret.err = NoErr
        /\ ListedResources =
              {machineSet \in EligibleMachineSets :
                  call.arg = NamespaceAll \/ machineSet.Namespace = call.arg}

\* ------------------------------- claims relating the queries to one another
\* the group nodeGroupForNode returned
GroupOfCall == Deref(call.ret.val)

\* nodeGroups, on the cache as it is, lists a group wrapping the resource of
\* ng, in whatever order the listers enumerate
ListedByNodeGroups(ng) ==
    \A machineSetList \in Enumerations(machineSets),
       machineDeploymentList \in Enumerations(machineDeployments) :
        LET all == nodeGroups(Env("none", machineSetList, machineDeploymentList))
        IN  /\ all.err = NoErr
            /\ \E i \in DOMAIN all.val :
                  /\ all.val[i].kind = ng.kind
                  /\ all.val[i].resource = ng.resource

\* C27: a group nodeGroupForNode returns is, on the same cache state, among
\* the groups nodeGroups returns, whether deployments are enabled or not.
C27_GroupOfNodeIsListed ==
    (call.op = "nodeGroupForNode" /\ call.ret.val # Nil) => ListedByNodeGroups(GroupOfCall)

\* ================================== a node's group and the group's members
\* n1 with and without provider id and machine annotation; n2 as a second
\* Node under the same provider id
AgreeNodeValues ==
    {Node("n1", providerID, annotations) :
        providerID \in {""} \cup ProviderIDs,
        annotations \in {EmptyMap, machineAnnotationKey :> Key(Namespace, "m1")}}
    \cup {Node("n2", providerID, EmptyMap) : providerID \in ProviderIDs}

\* the MachineSet ms1 with room to scale, with and without labels
AgreeMachineSetValues ==
    {[MachineSet("ms1", 1, MinMax(<<"1">>, <<"2">>), Ptr(1), <<>>) EXCEPT !.Labels = labels] :
        labels \in GroupLabels}

\* Node, Machine and MachineSet events and nodeGroupForNode
NextAgree ==
    \/ \E node \in AgreeNodeValues : UpsertNode(node)
    \/ \E node \in AgreeNodeValues : RemoveNode(node)
    \/ \E machine \in MemberMachineValues : UpsertMachine(machine)
    \/ \E machine \in MemberMachineValues : RemoveMachine(machine)
    \/ \E machineSet \in AgreeMachineSetValues : UpsertMachineSet(machineSet)
    \/ \E machineSet \in AgreeMachineSetValues : RemoveMachineSet(machineSet)
    \/ \E node \in AgreeNodeValues : CallNodeGroupForNode(node, "none")
    \/ Return

SpecAgree == Init /\ [][NextAgree]_vars

\* machineSetNodeNames, on the cache as it is, returns providerID among the
\* members of machineSet, in whatever order the lister enumerates
MemberOf(providerID, machineSet) ==
    \A machineList \in Enumerations(machines) :
        LET members == machineSetNodeNames(machineSet, EnvMachines("none", machineList))
        IN  /\ members.err = NoErr
            /\ \E i \in DOMAIN members.val : members.val[i] = providerID

\* C28: when nodeGroupForNode returns the group of a MachineSet for a cached
\* Node that has a provider id, machineSetNodeNames of that MachineSet, on
\* the same cache state, contains the provider id.
C28_NodeOfGroupIsMember ==
    ( /\ call.op = "nodeGroupForNode"
      /\ call.ret.val # Nil
      /\ call.arg \in nodes
      /\ call.arg.Spec.ProviderID # "" )
    => /\ GroupOfCall.kind = "MachineSet"
       /\ MemberOf(call.arg.Spec.ProviderID, GroupOfCall.resource)

\* ============================= queries while subscription events go on
\* The informers deliver events from their own goroutines: here an event can
\* fall between two store reads of a query, and after a query has returned
\* while the caller still holds what it returned.  Each store read is atomic
\* (the store's own lock); the controller holds no lock across reads.
TheNode == Node("n1", "p1", EmptyMap)
TheMachineKey == Key(Namespace, "m1")
TheMachineSetKey == Key(Namespace, "ms1")
TheMachineDeploymentKey == Key(Namespace, "md1")

ConcurrentNodeValues == {TheNode}
ConcurrentMachineValues ==
    {Machine("m1", Ptr("p1"), ownerReferences) : ownerReferences \in {<<>>, <<MachineSetRef>>}}
ConcurrentMachineSetValues ==
    {MachineSet("ms1", uid, MinMax(<<"1">>, <<"2">>), Ptr(1), ownerReferences) :
        uid \in UIDs, ownerReferences \in {<<>>, <<MachineDeploymentRef>>}}
ConcurrentMachineDeploymentValues ==
    {MachineDeployment("md1", 1, annotations, Ptr(1)) :
        annotations \in {MinMax(<<"1">>, <<"2">>), MinMax(<<"1">>, <<"1">>)}}

NoFault == Env("none", <<>>, <<>>)

\* what nodeGroups and nodeGroupForNode return when run on the cache as it
\* is, without an event in between
AtomicNodeGroups ==
    {nodeGroups(Env("none", machineSetList, machineDeploymentList)) :
        machineSetList \in Enumerations(machineSets),
        machineDeploymentList \in Enumerations(machineDeployments)}
AtomicNodeGroupForNode == {nodeGroupForNode(TheNode, NoFault)}

\* variant: what is returned is the stored object itself
SharedWithStore(kind, obj) == [kind |-> kind, obj |-> obj, shared |-> TRUE]

\* obj.DeepCopy(): what is returned is a copy of the stored object
DeepCopy(kind, obj) == [kind |-> kind, obj |-> obj, shared |-> FALSE]

\* the copies a query hands out: of the object a pointer result points at,
\* of the objects of a list, of the resources the groups of a list wrap
CopyOf(kind, p) == IF p = Nil THEN {} ELSE {DeepCopy(kind, Deref(p))}
CopiesOf(kind, list) == {DeepCopy(kind, list[i]) : i \in DOMAIN list}
ResourcesOf(groups) == {DeepCopy(groups[i].kind, groups[i].resource) : i \in DOMAIN groups}

\* a query in progress or returned: the operation, where it is (pc), what
\* it has read so far (part), its result (ret), the objects handed out with
\* the result (held); atomic records, for nodeGroups and nodeGroupForNode,
\* what the query would have returned on each cache state there has been
\* since it began
Query(op, pc, part, ret, held, atomic) ==
    [op |-> op, pc |-> pc, part |-> part, ret |-> ret, held |-> held, atomic |-> atomic]
Answer(op, ret, held) == Query(op, "done", Nil, ret, held, {})

\* a query in progress, with the atomic result on the cache as it is now
\* added to those it may be compared with: every event and every read of a
\* query records it for the state it starts from, so that each cache state
\* there is between the entry and the last read of a query is recorded
NodeGroupsSeeing == [call EXCEPT !.atomic = @ \cup AtomicNodeGroups]
NodeGroupForNodeSeeing == [call EXCEPT !.atomic = @ \cup AtomicNodeGroupForNode]
CallSeeing ==
    IF call = Idle THEN call
    ELSE IF call.pc = "done" THEN call
    ELSE IF call.op = "nodeGroups" THEN NodeGroupsSeeing
    ELSE NodeGroupForNodeSeeing

NodeEvent(node, deleted) ==
    /\ nodes' = IF deleted THEN StoreDelete(nodes, NodeKey(node)) ELSE StorePut(nodes, node)
    /\ nodeIndex' = IF deleted THEN IndexDelete(nodeIndex, NodeKey(node))
                    ELSE IndexPut(nodeIndex, NodeKey(node), indexNodeByProviderID(node))
    /\ UNCHANGED <<machines, machineSets, machineDeployments, machineIndex,
                   enableMachineDeployments, managerVars, runVars>>
    /\ call' = CallSeeing

MachineEvent(machine, deleted) ==
    /\ machines' = IF deleted THEN StoreDelete(machines, ObjKey(machine))
                   ELSE StorePut(machines, machine)
    /\ machineIndex' = IF deleted THEN IndexDelete(machineIndex, ObjKey(machine))
                       ELSE IndexPut(machineIndex, ObjKey(machine),
                                     indexMachineByProviderID(machine))
    /\ UNCHANGED <<nodes, machineSets, machineDeployments, nodeIndex,
                   enableMachineDeployments, managerVars, runVars>>
    /\ call' = CallSeeing

MachineSetEvent(machineSet, deleted) ==
    /\ machineSets' = IF deleted THEN StoreDelete(machineSets, ObjKey(machineSet))
                      ELSE StorePut(machineSets, machineSet)
    /\ UNCHANGED <<nodes, machines, machineDeployments, nodeIndex, machineIndex,
                   enableMachineDeployments, managerVars, runVars>>
    /\ call' = CallSeeing

MachineDeploymentEvent(machineDeployment, deleted) ==
    /\ machineDeployments' =
          IF deleted THEN StoreDelete(machineDeployments, ObjKey(machineDeployment))
          ELSE StorePut(machineDeployments, machineDeployment)
    /\ UNCHANGED <<nodes, machines, machineSets, nodeIndex, machineIndex,
                   enableMachineDeployments, managerVars, runVars>>
    /\ call' = CallSeeing

\* the queries that read one store once, or return no object
QueryFindMachine ==
    /\ call = Idle
    /\ LET ret == findMachine(TheMachineKey, NoFault)
       IN  call' = Answer("findMachine", ret, CopyOf("Machine", ret.val))
    /\ UNCHANGED <<cacheVars, enableMachineDeployments, managerVars, runVars>>

QueryFindMachineDeployment ==
    /\ call = Idle
    /\ LET ret == findMachineDeployment(TheMachineDeploymentKey, NoFault)
       IN  call' = Answer("findMachineDeployment", ret, CopyOf("MachineDeployment", ret.val))
    /\ UNCHANGED <<cacheVars, enableMachineDeployments, managerVars, runVars>>

QueryFindMachineOwner ==
    /\ call = Idle
    /\ \E machine \in ConcurrentMachineValues :
          LET ret == findMachineOwner(machine, NoFault)
          IN  call' = Answer("findMachineOwner", ret, CopyOf("MachineSet", ret.val))
    /\ UNCHANGED <<cacheVars, enableMachineDeployments, managerVars, runVars>>

QueryFindMachineByProviderID ==
    /\ call = Idle
    /\ LET ret == findMachineByProviderID(TheNode.Spec.ProviderID, NoFault)
       IN  call' = Answer("findMachineByProviderID", ret, CopyOf("Machine", ret.val))
    /\ UNCHANGED <<cacheVars, enableMachineDeployments, managerVars, runVars>>

QueryFindNodeByProviderID ==
    /\ call = Idle
    /\ LET ret == findNodeByProviderID(TheNode.Spec.ProviderID, NoFault)
       IN  call' = Answer("findNodeByProviderID", ret, CopyOf("Node", ret.val))
    /\ UNCHANGED <<cacheVars, enableMachineDeployments, managerVars, runVars>>

QueryFindNodeByNodeName ==
    /\ call = Idle
    /\ LET ret == findNodeByNodeName(TheNode.Name, NoFault)
       IN  call' = Answer("findNodeByNodeName", ret, CopyOf("Node", ret.val))
    /\ UNCHANGED <<cacheVars, enableMachineDeployments, managerVars, runVars>>

QueryMachinesInMachineSet ==
    /\ call = Idle
    /\ \E machineSet \in ConcurrentMachineSetValues, machineList \in Enumerations(machines) :
          LET ret == machinesInMachineSet(machineSet, EnvMachines("none", machineList))
          IN  call' = Answer("machinesInMachineSet", ret, CopiesOf("Machine", ret.val))
    /\ UNCHANGED <<cacheVars, enableMachineDeployments, managerVars, runVars>>

QueryMachineSetNodeNames ==
    /\ call = Idle
    /\ \E machineSet \in ConcurrentMachineSetValues, machineList \in Enumerations(machines) :
          LET ret == machineSetNodeNames(machineSet, EnvMachines("none", machineList))
          IN  call' = Answer("machineSetNodeNames", ret, {})
    /\ UNCHANGED <<cacheVars, enableMachineDeployments, managerVars, runVars>>

\* nodeGroups, entered
BeginNodeGroups ==
    /\ call = Idle
    /\ call' = Query("nodeGroups", "machineSets", Nil, Nil, {}, AtomicNodeGroups)
    /\ UNCHANGED <<cacheVars, enableMachineDeployments, managerVars, runVars>>

\* machineSets, err := c.machineSetNodeGroups()
NodeGroupsMachineSets ==
    /\ call # Idle
    /\ call.op = "nodeGroups" /\ call.pc = "machineSets"
    /\ \E machineSetList \in Enumerations(machineSets) :
          LET ms == machineSetNodeGroups(Env("none", machineSetList, <<>>))
              failed == ms.err # NoErr
          IN  call' = [NodeGroupsSeeing EXCEPT
                          !.pc = IF failed THEN "done" ELSE "machineDeployments",
                          !.part = IF failed THEN Nil ELSE ms.val,
                          !.ret = IF failed THEN R(<<>>, ms.err) ELSE Nil]
    /\ UNCHANGED <<cacheVars, enableMachineDeployments, managerVars, runVars>>

\* machineDeployments, err := c.machineDeploymentNodeGroups(); return
\* append(machineSets, machineDeployments...), nil
NodeGroupsMachineDeployments ==
    /\ call # Idle
    /\ call.op = "nodeGroups" /\ call.pc = "machineDeployments"
    /\ \E machineDeploymentList \in Enumerations(machineDeployments) :
          LET md == machineDeploymentNodeGroups(Env("none", <<>>, machineDeploymentList))
              ret == IF md.err # NoErr THEN R(<<>>, md.err) ELSE R(call.part \o md.val, NoErr)
          IN  call' = [NodeGroupsSeeing EXCEPT
                          !.pc = "done", !.part = Nil, !.ret = ret,
                          !.held = ResourcesOf(ret.val)]
    /\ UNCHANGED <<cacheVars, enableMachineDeployments, managerVars, runVars>>

\* nodeGroupForNode, entered
BeginNodeGroupForNode ==
    /\ call = Idle
    /\ call' = Query("nodeGroupForNode", "machine", Nil, Nil, {}, AtomicNodeGroupForNode)
    /\ UNCHANGED <<cacheVars, enableMachineDeployments, managerVars, runVars>>

\* nodeGroupForNode after a read: it goes on to pc holding part, or, with
\* pc "done", it ends with ret and hands out the resource of its group
NodeGroupForNodeStep(pc, part, ret) ==
    [NodeGroupForNodeSeeing EXCEPT
        !.pc = pc, !.part = part, !.ret = ret,
        !.held = IF pc # "done" THEN {}
                 ELSE IF ret.val = Nil THEN {}
                 ELSE {DeepCopy(Deref(ret.val).kind, Deref(ret.val).resource)}]

\* machine, err := c.findMachineByProviderID(node.Spec.ProviderID)
NodeGroupForNodeMachine ==
    /\ call # Idle
    /\ call.op = "nodeGroupForNode" /\ call.pc = "machine"
    /\ LET machine == findMachineByProviderID(TheNode.Spec.ProviderID, NoFault)
           found == machine.err = NoErr /\ machine.val # Nil
       IN  call' = NodeGroupForNodeStep(
                       IF found THEN "owner" ELSE "done",
                       IF found THEN Deref(machine.val) ELSE Nil,
                       IF found THEN Nil ELSE R(Nil, machine.err))
    /\ UNCHANGED <<cacheVars, enableMachineDeployments, managerVars, runVars>>

\* machineSet, err := c.findMachineOwner(machine), and the group of the
\* MachineSet when no deployment reference is followed
NodeGroupForNodeOwner ==
    /\ call # Idle
    /\ call.op = "nodeGroupForNode" /\ call.pc = "owner"
    /\ LET machineSet == findMachineOwner(call.part, NoFault)
           found == machineSet.err = NoErr /\ machineSet.val # Nil
           follows == found /\ deploymentRefToFollow(Deref(machineSet.val)) # Nil
       IN  call' = NodeGroupForNodeStep(
                       IF follows THEN "deployment" ELSE "done",
                       IF follows THEN Deref(machineSet.val) ELSE Nil,
                       IF follows THEN Nil
                       ELSE IF found THEN nodeGroupFromMachineSet(TheNode, Deref(machineSet.val))
                       ELSE R(Nil, machineSet.err))
    /\ UNCHANGED <<cacheVars, enableMachineDeployments, managerVars, runVars>>

\* the MachineDeployment branch: c.findMachineDeployment(key) and the group
\* of the MachineDeployment
NodeGroupForNodeDeployment ==
    /\ call # Idle
    /\ call.op = "nodeGroupForNode" /\ call.pc = "deployment"
    /\ call' = NodeGroupForNodeStep("done", Nil,
                   nodeGroupFromMachineDeploymentRef(TheNode, call.part,
                       deploymentRefToFollow(call.part), NoFault))
    /\ UNCHANGED <<cacheVars, enableMachineDeployments, managerVars, runVars>>

\* the caller lets go of what a query returned
Release ==
    /\ call # Idle
    /\ call.pc = "done"
    /\ call' = Idle
    /\ UNCHANGED <<cacheVars, enableMachineDeployments, managerVars, runVars>>

NextConcurrent ==
    \/ \E node \in ConcurrentNodeValues, deleted \in BOOLEAN : NodeEvent(node, deleted)
    \/ \E machine \in ConcurrentMachineValues, deleted \in BOOLEAN :
          MachineEvent(machine, deleted)
    \/ \E machineSet \in ConcurrentMachineSetValues, deleted \in BOOLEAN :
          MachineSetEvent(machineSet, deleted)
    \/ \E machineDeployment \in ConcurrentMachineDeploymentValues, deleted \in BOOLEAN :
          MachineDeploymentEvent(machineDeployment, deleted)
    \/ QueryFindMachine
    \/ QueryFindMachineDeployment
    \/ QueryFindMachineOwner
    \/ QueryFindMachineByProviderID
    \/ QueryFindNodeByProviderID
    \/ QueryFindNodeByNodeName
    \/ QueryMachinesInMachineSet
    \/ QueryMachineSetNodeNames
    \/ BeginNodeGroups
    \/ NodeGroupsMachineSets
    \/ NodeGroupsMachineDeployments
    \/ BeginNodeGroupForNode
    \/ NodeGroupForNodeMachine
    \/ NodeGroupForNodeOwner
    \/ NodeGroupForNodeDeployment
    \/ Release

SpecConcurrent == Init /\ [][NextConcurrent]_vars

\* ---------------------------------------------------------------- C23
\* C23: what one call of nodeGroups or nodeGroupForNode returns is what the
\* query returns on a single cache state there was during the call, also
\* when events for Machines, MachineSets and MachineDeployments fall between
\* its reads.
TwoStoreQueryReturned ==
    /\ call # Idle
    /\ call.op \in {"nodeGroups", "nodeGroupForNode"}
    /\ call.pc = "done"
C23_ResultOfOneCacheState == TwoStoreQueryReturned => call.ret \in call.atomic

\* the same for each of the two queries
NodeGroupsOfOneCacheState ==
    (TwoStoreQueryReturned /\ call.op = "nodeGroups") => call.ret \in call.atomic
NodeGroupForNodeOfOneCacheState ==
    (TwoStoreQueryReturned /\ call.op = "nodeGroupForNode") => call.ret \in call.atomic

\* ---------------------------------------------------------------- C21
\* the store of the objects of a kind
StoreOf(kind) ==
    CASE kind = "Node" -> nodes
      [] kind = "Machine" -> machines
      [] kind = "MachineSet" -> machineSets
      [] kind = "MachineDeployment" -> machineDeployments

\* what the caller reads through a value it was handed: a copy reads as it
\* was returned; an object shared with the store reads as the store has it
\* now under its key, Nil when it is gone
Observed(h) ==
    IF ~h.shared THEN Ptr(h.obj)
    ELSE LET stored == GetByKey(StoreOf(h.kind), MetaNamespaceKeyFunc(h.obj))
         IN  IF stored = {} THEN Nil ELSE Ptr(CHOOSE obj \in stored : TRUE)

\* where a query is and what it has read, held and returned
Progress == IF call = Idle THEN <<"idle">>
            ELSE <<call.op, call.pc, call.part, call.ret, call.held>>
ProgressNext == IF call' = Idle THEN <<"idle">>
                ELSE <<call'.op, call'.pc, call'.part, call'.ret, call'.held>>

QueryReturned == call # Idle /\ call.pc = "done"
HeldAsReturned == QueryReturned => \A h \in call.held : Observed(h) = Ptr(h.obj)

====
